---------------------------- MODULE Spec2Model ----------------------------
(***************************************************************************)
(* A model of cvs2svn's output options (cvs2svn_lib/output_option.py) and  *)
(* of its command-line run options (cvs2svn_lib/run_options.py).           *)
(*                                                                         *)
(* The output option drives an SVNRepositoryMirror: every process_* call   *)
(* is one action, and the calls it makes on the mirror are recorded, in    *)
(* order, in `log'.  The command line is consumed one option per step, as  *)
(* the `for opt, value in opts' loop does, and the code after the loop is  *)
(* one action.                                                             *)
(***************************************************************************)
EXTENDS Integers, Sequences, FiniteSets, TLC

VARIABLES
  ctx,          \* Ctx(), the context the options are stored to
  open,         \* number of commits the mirror has open
  run,          \* self, the RunOptions: start_pass, end_pass, profiling
  loc,          \* the local variables of CommandLineRunOptions.__init__
  pc,           \* where __init__ is: "opts" (in the option loop), "returned",
                \* "exited" (sys.exit) or "raised"
  result,       \* the exception raised or the exit status
  seen,         \* the order-sensitive options processed so far, in order
  env,          \* what __init__ was given from outside: the number of
                \* arguments, the state of the target path, svnadmin
  svnadmin_runs, \* the svnadmin commands executed
  printed,      \* what was written to stdout and stderr, in order
  log_level,    \* Log().log_level
  option_check, \* the call of the output option's check(), if made
  log,          \* the mirror calls made by the latest process_* call
  last,         \* the latest process_* call: its kind and its svn_commit
  raised,       \* the exception the latest process_* call ended with
  revnum,       \* the revnum of the latest svn_commit
  option,       \* the output option set up: its class, its fields and how
                \* far its life has come
  events,       \* what the output option has done to the mirror, to
                \* svnadmin and to the repository's files, in order
  db_config,    \* the file db/DB_CONFIG under the target path
  tree1,        \* verify-cvs2svn: what is at base1 (the CVS export)
  tree2,        \* verify-cvs2svn: what is at base2 (the export verified)
  failures,     \* verify-cvs2svn: the Failures object
  ret,          \* verify-cvs2svn: the compare function called, its value
  symbol,       \* verify-cvs2svn: the transform rules and the names they gave
  vrun          \* verify-cvs2svn: main(), its options and what it did

outVars == <<open, log, last, raised, revnum>>

optVars ==
  <<run, loc, pc, result, seen, env, svnadmin_runs, printed, log_level, option_check>>

lifeVars == <<option, events, db_config>>

verVars == <<tree1, tree2, failures, ret, symbol, vrun>>

vars == <<ctx, optVars, outVars, lifeVars, verVars>>

-----------------------------------------------------------------------------
(* Bounds of the model. *)

MaxCommits == 2
MaxRevs == 2
MaxProjects == 2

-----------------------------------------------------------------------------
(* Small helpers. *)

RECURSIVE SeqsUpTo(_, _)
SeqsUpTo(S, n) ==
  IF n = 0 THEN {<<>>}
  ELSE LET shorter == SeqsUpTo(S, n - 1)
       IN shorter \cup {Append(s, x) : s \in {t \in shorter : Len(t) = n - 1}, x \in S}

RECURSIVE Flatten(_)
Flatten(ss) == IF ss = <<>> THEN <<>> ELSE Head(ss) \o Flatten(Tail(ss))


-----------------------------------------------------------------------------
(* Option values and the context.                                          *)
(*                                                                         *)
(* A string is held as the list value.split(':') gives, so that ':' can be *)
(* looked for and the value split as the code does: <<"a", "b">> is 'a:b'  *)
(* and <<"">> is the empty string.  None is the empty list.                *)

None == <<>>
Str(s) == <<s>>

\* Python's truth value of None or a string.
Truthy(v) == v # None /\ v # Str("")

NumPasses == 3

\* The context before the command line is read.
CtxDefaults ==
  [ target |-> None, existing_svnrepos |-> FALSE, dump_only |-> FALSE,
    dumpfile |-> Str("cvs2svn-dump"), dry_run |-> FALSE, use_cvs |-> FALSE,
    svnadmin |-> Str("svnadmin"), trunk_only |-> FALSE,
    trunk_base |-> Str("trunk"), branches_base |-> Str("branches"),
    tags_base |-> Str("tags"), prune |-> TRUE, encoding |-> <<Str("ascii")>>,
    symbol_strategy |-> <<>>, symbol_transforms |-> <<>>, username |-> None,
    fs_type |-> None, bdb_txn_nosync |-> FALSE, svn_property_setters |-> <<>>,
    tmpdir |-> Str("."), skip_cleanup |-> FALSE, projects |-> <<>> ]

-----------------------------------------------------------------------------
(* CommandLineRunOptions.__init__: the option loop.                        *)

\* RunOptions.__init__
RunDefaults == [start_pass |-> 1, end_pass |-> NumPasses, profiling |-> FALSE]

\* The locals set before the loop.
Locals ==
  [ print_help |-> FALSE, quiet |-> 0, verbose |-> 0,
    symbol_strategy_default |-> Str("strict"),
    mime_types_file |-> None, auto_props_file |-> None,
    auto_props_ignore_case |-> FALSE, eol_from_mime_type |-> FALSE,
    no_default_eol |-> FALSE, keywords_off |-> FALSE ]

\* An (opt, value) pair of the list getopt returns; value is '' for a flag.
Option(opt, value) == [opt |-> opt, value |-> value]
Flag(opt) == Option(opt, Str(""))

NoResult == [exc |-> "none", msg |-> "", status |-> -1]
Exit(status) == [exc |-> "SystemExit", msg |-> "", status |-> status]
Raise(exc, msg) == [exc |-> exc, msg |-> msg, status |-> -1]

\* What the outside gives: len(args), os.path.exists and os.path.isdir of a
\* target path that is a non-empty string, and whether svnadmin can be run.
Env(nargs, exists, isdir, svnadmin_ok) ==
  [nargs |-> nargs, exists |-> exists, isdir |-> isdir, svnadmin_ok |-> svnadmin_ok]

NoEnv == Env(-1, FALSE, FALSE, FALSE)

\* The state __init__ works on.
Current ==
  [ pc |-> pc, result |-> result, ctx |-> ctx, run |-> run, loc |-> loc,
    svnadmin_runs |-> svnadmin_runs, printed |-> printed, log_level |-> log_level ]

Become(st) ==
  /\ pc' = st.pc
  /\ result' = st.result
  /\ ctx' = st.ctx
  /\ run' = st.run
  /\ loc' = st.loc
  /\ svnadmin_runs' = st.svnadmin_runs
  /\ printed' = st.printed
  /\ log_level' = st.log_level

\* sys.exit(status), raise exc(msg)
SysExit(st, status) == [st EXCEPT !.pc = "exited", !.result = Exit(status)]
Throw(st, exc, msg) == [st EXCEPT !.pc = "raised", !.result = Raise(exc, msg)]

\* list.insert(index, x) of Python: a negative index counts from the end,
\* and an index out of range is clipped.
Insert(list, index, x) ==
  LET n == Len(list)
      i == IF index < 0 THEN index + n ELSE index
      j == IF i < 0 THEN 0 ELSE IF i > n THEN n ELSE i
  IN SubSeq(list, 1, j) \o <<x>> \o SubSeq(list, j + 1, n)

\* int() of a pass number.
IntOf == [s \in {"0", "1", "2", "3", "4", "5", "6", "7", "8", "9"} |->
            CASE s = "0" -> 0 [] s = "1" -> 1 [] s = "2" -> 2 [] s = "3" -> 3
              [] s = "4" -> 4 [] s = "5" -> 5 [] s = "6" -> 6 [] s = "7" -> 7
              [] s = "8" -> 8 [] OTHER -> 9]

\* pass_manager.get_pass_number(pass_name, default): the pass number, or 0
\* where it raises InvalidPassError; default is 0 for no default.
get_pass_number(pass_name, default) ==
  IF pass_name = "" /\ default # 0 THEN default
  ELSE IF pass_name \in DOMAIN IntOf /\ IntOf[pass_name] \in 1..NumPasses
         THEN IntOf[pass_name]
         ELSE 0

\* Variant: the order of the range is not checked.
PassOrderCheck_Skipped(st) == st

\* The check that ends the '-p' branch.
PassOrderCheck(st) ==
  IF ~(st.run.start_pass <= st.run.end_pass)
    THEN Throw(st, "InvalidPassError", "Ending pass must not come before starting pass.")
    ELSE st

\* The '-p' branch of the loop.
PassOption(st, value) ==
  IF Len(value) >= 2
    THEN IF Len(value) # 2
      THEN Throw(st, "ValueError", "too many values to unpack")
      ELSE LET start_pass == get_pass_number(value[1], 1)
               end_pass == get_pass_number(value[2], NumPasses)
           IN IF start_pass = 0
                THEN Throw(st, "InvalidPassError", "invalid pass")
              ELSE IF end_pass = 0
                THEN Throw([st EXCEPT !.run.start_pass = start_pass],
                           "InvalidPassError", "invalid pass")
              ELSE PassOrderCheck([st EXCEPT !.run.start_pass = start_pass,
                                             !.run.end_pass = end_pass])
    ELSE LET pass == get_pass_number(value[1], 0)
         IN IF pass = 0
              THEN Throw(st, "InvalidPassError", "invalid pass")
              ELSE PassOrderCheck([st EXCEPT !.run.start_pass = pass,
                                             !.run.end_pass = pass])

\* A rule of the symbol strategy, a property setter.
Rule(class, arg) == [class |-> class, arg |-> arg]
Setter(class, arg, flag) == [class |-> class, arg |-> arg, flag |-> flag]

\* ctx.symbol_strategy.add_rule(rule)
add_rule(st, rule) == [st EXCEPT !.ctx.symbol_strategy = Append(@, rule)]

\* ctx.svn_property_setters.append(setter)
add_setter(st, setter) == [st EXCEPT !.ctx.svn_property_setters = Append(@, setter)]

\* Variant: the encoding is appended to the list.
EncodingOption_Append(encoding, value) == Append(encoding, value)

\* The '--encoding' branch of the loop.
EncodingOption(encoding, value) == Insert(encoding, -1, value)

SymbolDefaults == {Str("branch"), Str("tag"), Str("heuristic"), Str("strict")}

\* Variant: a '--symbol-default' after the first is ignored.
SymbolDefaultOption_FirstWins(st, value) ==
  IF value \notin SymbolDefaults
    THEN Throw(st, "FatalError", "not a valid option for --symbol_default")
  ELSE IF st.loc.symbol_strategy_default # Str("strict") THEN st
  ELSE [st EXCEPT !.loc.symbol_strategy_default = value]

\* The '--symbol-default' branch of the loop.
SymbolDefaultOption(st, value) ==
  IF value \notin SymbolDefaults
    THEN Throw(st, "FatalError", "not a valid option for --symbol_default")
    ELSE [st EXCEPT !.loc.symbol_strategy_default = value]

\* The patterns re.compile accepts, among those tried.
ValidRegexps == {"a", "b"}

\* The '--symbol-transform' branch of the loop.
SymbolTransformOption(st, value) ==
  IF Len(value) # 2
    THEN Throw(st, "ValueError", "wrong number of values to unpack")
  ELSE IF value[1] \notin ValidRegexps
    THEN Throw(st, "FatalError", "not a valid regexp")
  ELSE [st EXCEPT !.ctx.symbol_transforms = Append(@, <<value[1], value[2]>>)]

\* One pass of the option loop: the branch of the if/elif chain for opt.
HandleOption(st, o) ==
  LET opt == o.opt
      value == o.value
  IN CASE opt \in {"--help", "-h"} -> [st EXCEPT !.loc.print_help = TRUE]
       [] opt = "--help-passes" ->
            SysExit([st EXCEPT !.printed = Append(@, "help_passes")], 0)
       [] opt = "--version" ->
            SysExit([st EXCEPT !.printed = Append(@, "version")], 0)
       [] opt \in {"--verbose", "-v"} -> [st EXCEPT !.loc.verbose = @ + 1]
       [] opt \in {"--quiet", "-q"} -> [st EXCEPT !.loc.quiet = @ + 1]
       [] opt = "-s" -> [st EXCEPT !.ctx.target = value]
       [] opt = "-p" -> PassOption(st, value)
       [] opt = "--existing-svnrepos" -> [st EXCEPT !.ctx.existing_svnrepos = TRUE]
       [] opt = "--dump-only" -> [st EXCEPT !.ctx.dump_only = TRUE]
       [] opt = "--dumpfile" -> [st EXCEPT !.ctx.dumpfile = value]
       [] opt = "--dry-run" -> [st EXCEPT !.ctx.dry_run = TRUE]
       [] opt = "--use-cvs" -> [st EXCEPT !.ctx.use_cvs = TRUE]
       [] opt = "--svnadmin" -> [st EXCEPT !.ctx.svnadmin = value]
       [] opt = "--trunk-only" -> [st EXCEPT !.ctx.trunk_only = TRUE]
       [] opt = "--trunk" -> [st EXCEPT !.ctx.trunk_base = value]
       [] opt = "--branches" -> [st EXCEPT !.ctx.branches_base = value]
       [] opt = "--tags" -> [st EXCEPT !.ctx.tags_base = value]
       [] opt = "--no-prune" -> [st EXCEPT !.ctx.prune = FALSE]
       [] opt = "--encoding" -> [st EXCEPT !.ctx.encoding = EncodingOption(@, value)]
       [] opt = "--force-branch" ->
            add_rule(st, Rule("ForceBranchRegexpStrategyRule", value))
       [] opt = "--force-tag" ->
            add_rule(st, Rule("ForceTagRegexpStrategyRule", value))
       [] opt = "--exclude" ->
            add_rule(st, Rule("ExcludeRegexpStrategyRule", value))
       [] opt = "--symbol-default" -> SymbolDefaultOption(st, value)
       [] opt = "--symbol-transform" -> SymbolTransformOption(st, value)
       [] opt = "--username" -> [st EXCEPT !.ctx.username = value]
       [] opt = "--fs-type" -> [st EXCEPT !.ctx.fs_type = value]
       [] opt = "--bdb-txn-nosync" -> [st EXCEPT !.ctx.bdb_txn_nosync = TRUE]
       [] opt = "--cvs-revnums" ->
            add_setter(st, Setter("CVSRevisionNumberSetter", None, FALSE))
       [] opt = "--mime-types" -> [st EXCEPT !.loc.mime_types_file = value]
       [] opt = "--auto-props" -> [st EXCEPT !.loc.auto_props_file = value]
       [] opt = "--auto-props-ignore-case" ->
            [st EXCEPT !.loc.auto_props_ignore_case = TRUE]
       [] opt = "--eol-from-mime-type" -> [st EXCEPT !.loc.eol_from_mime_type = TRUE]
       [] opt = "--no-default-eol" -> [st EXCEPT !.loc.no_default_eol = TRUE]
       [] opt = "--keywords-off" -> [st EXCEPT !.loc.keywords_off = TRUE]
       [] opt = "--tmpdir" -> [st EXCEPT !.ctx.tmpdir = value]
       [] opt = "--skip-cleanup" -> [st EXCEPT !.ctx.skip_cleanup = TRUE]
       [] opt = "--profile" -> [st EXCEPT !.run.profiling = TRUE]
       [] opt = "--create" -> [st EXCEPT !.printed = Append(@, "warning: --create")]
       [] OTHER -> st

-----------------------------------------------------------------------------
(* CommandLineRunOptions.__init__: the code after the option loop.         *)

\* usage()
usage(st) == [st EXCEPT !.printed = Append(@, "usage")]

\* Variant: two options are never in conflict.
not_both_Never(opt1val, opt1name, opt2val, opt2name) == ""

\* not_both(opt1val, opt1name, opt2val, opt2name): the message of the
\* FatalError it raises, or "" if it returns.
not_both(opt1val, opt1name, opt2val, opt2name) ==
  IF opt1val /\ opt2val
    THEN "cannot pass both '" \o opt1name \o "' and '" \o opt2name \o "'."
    ELSE ""

\* The first message of a list of checks that is not "".
RECURSIVE FirstFailure(_)
FirstFailure(msgs) ==
  IF msgs = <<>> THEN ""
  ELSE IF Head(msgs) # "" THEN Head(msgs)
  ELSE FirstFailure(Tail(msgs))

\* The consistency checks of the options, in the order of the code: the
\* message of the first FatalError raised, or "" if all pass.
ConsistencyCheck(st) ==
  LET c == st.ctx
  IN FirstFailure(<<
       IF ~Truthy(c.target) /\ ~c.dump_only /\ ~c.dry_run
         THEN "must pass one of '-s' or '--dump-only'." ELSE "",
       not_both(Truthy(c.target), "-s", c.dump_only, "--dump-only"),
       not_both(c.dump_only, "--dump-only", c.existing_svnrepos, "--existing-svnrepos"),
       not_both(c.bdb_txn_nosync, "--bdb-txn-nosync",
                c.existing_svnrepos, "--existing-svnrepos"),
       not_both(c.dump_only, "--dump-only", c.bdb_txn_nosync, "--bdb-txn-nosync"),
       not_both(st.loc.quiet # 0, "-q", st.loc.verbose # 0, "-v"),
       not_both(Truthy(c.fs_type), "--fs-type",
                c.existing_svnrepos, "--existing-svnrepos"),
       IF Truthy(c.fs_type) /\ c.fs_type # Str("bdb") /\ c.bdb_txn_nosync
         THEN "cannot pass --bdb-txn-nosync with --fs-type." ELSE "" >>)

SetLogLevel(st) ==
  [st EXCEPT !.log_level =
     IF st.loc.verbose # 0 THEN "VERBOSE"
     ELSE IF st.loc.quiet = 1 THEN "QUIET"
     ELSE IF st.loc.quiet >= 2 THEN "WARN"
     ELSE "NORMAL"]

\* ctx.add_project(Project(len(ctx.projects), cvsroot, ...))
AddDefaultProject(st) ==
  [st EXCEPT !.ctx.projects =
     Append(@, [id |-> Len(st.ctx.projects), trunk_path |-> st.ctx.trunk_base,
                branches_path |-> st.ctx.branches_base,
                tags_path |-> st.ctx.tags_base])]

\* Variant: the heuristic rule is added before the branch-if-commits rule.
DefaultRules_HeuristicFirst(st) ==
  LET st1 == add_rule(st, Rule("UnambiguousUsageRule", None))
      default == st.loc.symbol_strategy_default
  IN CASE default = Str("strict") -> st1
       [] default = Str("branch") -> add_rule(st1, Rule("AllBranchRule", None))
       [] default = Str("tag") -> add_rule(st1, Rule("AllTagRule", None))
       [] default = Str("heuristic") ->
            add_rule(add_rule(st1, Rule("HeuristicStrategyRule", None)),
                     Rule("BranchIfCommitsRule", None))
       [] OTHER -> Throw(st1, "AssertionError", "assert False")

\* The rules added after the loop.
DefaultRules(st) ==
  LET st1 == add_rule(st, Rule("UnambiguousUsageRule", None))
      default == st.loc.symbol_strategy_default
  IN CASE default = Str("strict") -> st1
       [] default = Str("branch") -> add_rule(st1, Rule("AllBranchRule", None))
       [] default = Str("tag") -> add_rule(st1, Rule("AllTagRule", None))
       [] default = Str("heuristic") ->
            add_rule(add_rule(st1, Rule("BranchIfCommitsRule", None)),
                     Rule("HeuristicStrategyRule", None))
       [] OTHER -> Throw(st1, "AssertionError", "assert False")

\* Variant: the mime.types mapper is registered after the default mime type.
DefaultSetters_MimeLate(st) ==
  LET l == st.loc
      s1 == add_setter(st, Setter("ExecutablePropertySetter", None, FALSE))
      s2 == add_setter(s1, Setter("BinaryFileEOLStyleSetter", None, FALSE))
      s3 == IF Truthy(l.auto_props_file)
              THEN add_setter(s2, Setter("AutoPropsPropertySetter", l.auto_props_file,
                                         l.auto_props_ignore_case))
              ELSE s2
      s4 == add_setter(s3, Setter("BinaryFileDefaultMimeTypeSetter", None, FALSE))
      s5 == IF Truthy(l.mime_types_file)
              THEN add_setter(s4, Setter("MimeMapper", l.mime_types_file, FALSE))
              ELSE s4
      s6 == IF l.eol_from_mime_type
              THEN add_setter(s5, Setter("EOLStyleFromMimeTypeSetter", None, FALSE))
              ELSE s5
      s7 == IF l.no_default_eol
              THEN add_setter(s6, Setter("DefaultEOLStyleSetter", None, FALSE))
              ELSE add_setter(s6, Setter("DefaultEOLStyleSetter", Str("native"), FALSE))
  IN IF ~l.keywords_off
       THEN add_setter(s7, Setter("KeywordsPropertySetter", Str("SVN_KEYWORDS_VALUE"), FALSE))
       ELSE s7

\* The property setters appended after the loop.
DefaultSetters(st) ==
  LET l == st.loc
      s1 == add_setter(st, Setter("ExecutablePropertySetter", None, FALSE))
      s2 == add_setter(s1, Setter("BinaryFileEOLStyleSetter", None, FALSE))
      s3 == IF Truthy(l.mime_types_file)
              THEN add_setter(s2, Setter("MimeMapper", l.mime_types_file, FALSE))
              ELSE s2
      s4 == IF Truthy(l.auto_props_file)
              THEN add_setter(s3, Setter("AutoPropsPropertySetter", l.auto_props_file,
                                         l.auto_props_ignore_case))
              ELSE s3
      s5 == add_setter(s4, Setter("BinaryFileDefaultMimeTypeSetter", None, FALSE))
      s6 == IF l.eol_from_mime_type
              THEN add_setter(s5, Setter("EOLStyleFromMimeTypeSetter", None, FALSE))
              ELSE s5
      s7 == IF l.no_default_eol
              THEN add_setter(s6, Setter("DefaultEOLStyleSetter", None, FALSE))
              ELSE add_setter(s6, Setter("DefaultEOLStyleSetter", Str("native"), FALSE))
  IN IF ~l.keywords_off
       THEN add_setter(s7, Setter("KeywordsPropertySetter", Str("SVN_KEYWORDS_VALUE"), FALSE))
       ELSE s7

\* os.path.exists(path), os.path.isdir(path) of a string
Exists(path, e) == Truthy(path) /\ e.exists
IsDir(path, e) == Truthy(path) /\ e.isdir

\* The rules and the setters: the end of __init__, which returns.
RulesAndSetters(st) ==
  LET st1 == DefaultRules(st)
  IN IF st1.pc = "raised" THEN st1 ELSE [DefaultSetters(st1) EXCEPT !.pc = "returned"]

\* Variant: svnadmin is tried before the target path is tested.
TargetChecks_SvnadminFirst(st, e) ==
  LET c == st.ctx
      tried == Truthy(c.target) /\ ~c.dry_run
      st1 == IF tried THEN [st EXCEPT !.svnadmin_runs = @ + 1] ELSE st
  IN IF c.existing_svnrepos /\ c.target = None
       THEN Throw(st, "TypeError", "os.path.isdir(None)")
     ELSE IF c.existing_svnrepos /\ ~IsDir(c.target, e)
       THEN Throw(st, "FatalError", "the svn-repos-path is not an existing directory.")
     ELSE IF tried /\ ~e.svnadmin_ok
       THEN Throw(st1, "FatalError", "svnadmin could not be executed.")
     ELSE IF ~c.dump_only /\ ~c.existing_svnrepos /\ ~c.dry_run /\ Exists(c.target, e)
       THEN Throw(st1, "FatalError", "the svn-repos-path exists.")
     ELSE RulesAndSetters(st1)

\* The checks of the target path and of svnadmin.  os.path.isdir(None)
\* raises TypeError.
TargetChecks(st, e) ==
  LET c == st.ctx
  IN IF c.existing_svnrepos /\ c.target = None
       THEN Throw(st, "TypeError", "os.path.isdir(None)")
     ELSE IF c.existing_svnrepos /\ ~IsDir(c.target, e)
       THEN Throw(st, "FatalError", "the svn-repos-path is not an existing directory.")
     ELSE IF ~c.dump_only /\ ~c.existing_svnrepos /\ ~c.dry_run /\ Exists(c.target, e)
       THEN Throw(st, "FatalError", "the svn-repos-path exists.")
     ELSE IF Truthy(c.target) /\ ~c.dry_run
       THEN LET st1 == [st EXCEPT !.svnadmin_runs = @ + 1]
            IN IF ~e.svnadmin_ok
                 THEN Throw(st1, "FatalError", "svnadmin could not be executed.")
                 ELSE RulesAndSetters(st1)
     ELSE RulesAndSetters(st)

\* Variant: the number of arguments is tested before print_help.
AfterLoop_ArgumentsFirst(st, e) ==
  IF e.nargs = 0 THEN SysExit(usage(st), 1)
  ELSE IF e.nargs > 1
    THEN SysExit(usage([st EXCEPT !.printed =
                          Append(@, "error: must pass only one CVS repository.")]), 1)
  ELSE IF st.loc.print_help THEN SysExit(usage(st), 0)
  ELSE IF ConsistencyCheck(st) # ""
    THEN Throw(st, "FatalError", ConsistencyCheck(st))
  ELSE TargetChecks(AddDefaultProject(SetLogLevel(st)), e)

\* All of __init__ after the option loop, in the environment e.
AfterLoop(st, e) ==
  IF st.loc.print_help THEN SysExit(usage(st), 0)
  ELSE IF e.nargs = 0 THEN SysExit(usage(st), 1)
  ELSE IF e.nargs > 1
    THEN SysExit(usage([st EXCEPT !.printed =
                          Append(@, "error: must pass only one CVS repository.")]), 1)
  ELSE IF ConsistencyCheck(st) # ""
    THEN Throw(st, "FatalError", ConsistencyCheck(st))
  ELSE TargetChecks(AddDefaultProject(SetLogLevel(st)), e)

-----------------------------------------------------------------------------
(* The steps of CommandLineRunOptions.__init__.                            *)

\* The options whose order on the command line matters.
OrderSensitive ==
  {"-p", "--encoding", "--force-branch", "--force-tag", "--exclude", "--symbol-default"}

\* One pass of the loop `for opt, value in opts'.
ProcessOption(o) ==
  /\ pc = "opts"
  /\ Become(HandleOption(Current, o))
  /\ seen' = IF o.opt \in OrderSensitive THEN Append(seen, o) ELSE seen
  /\ UNCHANGED <<env, option_check, outVars, lifeVars, verVars>>

\* The loop is over: the rest of __init__, in the environment e.
Finish(e) ==
  /\ pc = "opts"
  /\ Become(AfterLoop(Current, e))
  /\ env' = e
  /\ UNCHANGED <<seen, option_check, outVars, lifeVars, verVars>>

Envs ==
  {Env(n, x, d, ok) : n \in 0..2, x \in BOOLEAN, d \in BOOLEAN, ok \in BOOLEAN}
    \ {Env(n, FALSE, TRUE, ok) : n \in 0..2, ok \in BOOLEAN}

-----------------------------------------------------------------------------
(* The check() of the output options for a repository.                     *)

Checked(r, runs) == [called |-> TRUE, result |-> r, svnadmin_runs |-> runs]
NotChecked == [called |-> FALSE, result |-> NoResult, svnadmin_runs |-> 0]

\* RepositoryOutputOption.check
RepositoryOutputOption_check(dry_run, e) ==
  IF ~dry_run
    THEN IF ~e.svnadmin_ok
           THEN Checked(Raise("FatalError", "svnadmin could not be executed."), 1)
           ELSE Checked(NoResult, 1)
    ELSE Checked(NoResult, 0)

\* NewRepositoryOutputOption.check; os.path.exists(None) raises TypeError.
NewRepositoryOutputOption_check(target, dry_run, e) ==
  LET r == RepositoryOutputOption_check(dry_run, e)
  IN IF r.result.exc # "none" THEN r
     ELSE IF ~dry_run /\ target = None
       THEN Checked(Raise("TypeError", "os.path.exists(None)"), r.svnadmin_runs)
     ELSE IF ~dry_run /\ Exists(target, e)
       THEN Checked(Raise("FatalError", "the svn-repos-path exists."), r.svnadmin_runs)
     ELSE r

\* check() of the NewRepositoryOutputOption(ctx.target, ctx.fs_type,
\* ctx.bdb_txn_nosync) built from the context when the conversion is to a
\* new repository, in the environment __init__ ran in: the call made once
\* __init__ has returned, and the one made when the same context is built
\* by an options file, which runs none of __init__'s checks.
OutputOptionCheck ==
  /\ pc \in {"returned", "raised"}
  /\ env.nargs = 1
  /\ ~ctx.dump_only /\ ~ctx.existing_svnrepos
  /\ ~option_check.called
  /\ option_check' = NewRepositoryOutputOption_check(ctx.target, ctx.dry_run, env)
  /\ UNCHANGED <<ctx, run, loc, pc, result, seen, env, svnadmin_runs, printed,
                 log_level, outVars, lifeVars, verVars>>

-----------------------------------------------------------------------------
(* The life of an output option: check(), setup(), cleanup().              *)

\* An output option as its constructor leaves it.  `target' is the
\* dumpfile_path of a DumpfileOutputOption.
OutputOption(class, target, fs_type, bdb_txn_nosync) ==
  [class |-> class, target |-> target, fs_type |-> fs_type,
   bdb_txn_nosync |-> bdb_txn_nosync, phase |-> "new", exc |-> "none"]

NoOption ==
  [class |-> "none", target |-> None, fs_type |-> None, bdb_txn_nosync |-> FALSE,
   phase |-> "none", exc |-> "none"]

\* The file db/DB_CONFIG: its lines, as readlines() returns them.
File(lines) == [exists |-> TRUE, lines |-> lines]
Absent == [exists |-> FALSE, lines |-> <<>>]

no_sync == "set_flags DB_TXN_NOSYNC\n"

\* One thing the output option did.
Event(op, args) == [op |-> op, args |-> args]

NoLifecycle == option = NoOption /\ events = <<>> /\ db_config = Absent

\* Variant: the revision reader is started before the mirror is opened.
SVNOutputOption_setup_StartFirst ==
  <<Event("revision_reader.start", <<>>), Event("repos.open", <<>>),
    Event("repos.add_delegate", <<"StdoutDelegate">>)>>

\* SVNOutputOption.setup
SVNOutputOption_setup ==
  <<Event("repos.open", <<>>), Event("revision_reader.start", <<>>),
    Event("repos.add_delegate", <<"StdoutDelegate">>)>>

\* DumpfileOutputOption.setup
DumpfileOutputOption_setup(o, dry_run) ==
  SVNOutputOption_setup \o
    (IF ~dry_run
       THEN <<Event("repos.add_delegate", <<"DumpfileDelegate", o.target[1]>>)>>
       ELSE <<>>)

\* Variant: the repository delegate is registered in a dry run too.
RepositoryOutputOption_setup_Always(o, dry_run) ==
  SVNOutputOption_setup \o
    <<Event("repos.add_delegate", <<"RepositoryDelegate", o.target[1]>>)>>

\* RepositoryOutputOption.setup
RepositoryOutputOption_setup(o, dry_run) ==
  SVNOutputOption_setup \o
    (IF ~dry_run
       THEN <<Event("repos.add_delegate", <<"RepositoryDelegate", o.target[1]>>)>>
       ELSE <<>>)

\* Variant: --bdb-txn-nosync is passed only if the option was constructed
\* with bdb_txn_nosync.
CreateCommand_AsRequested(o, dry_run) ==
  IF dry_run THEN <<>>
  ELSE <<Event("run_command",
               <<"svnadmin", "create">>
                 \o (IF Truthy(o.fs_type) THEN <<"--fs-type=" \o o.fs_type[1]>> ELSE <<>>)
                 \o (IF o.bdb_txn_nosync THEN <<"--bdb-txn-nosync">> ELSE <<>>)
                 \o <<o.target[1]>>)>>

\* The run_command of NewRepositoryOutputOption.setup, if it makes one.
CreateCommand(o, dry_run) ==
  IF dry_run THEN <<>>
  ELSE IF ~Truthy(o.fs_type)
    THEN <<Event("run_command",
                 <<"svnadmin", "create", "--bdb-txn-nosync", o.target[1]>>)>>
  ELSE IF o.fs_type = Str("bdb")
    THEN <<Event("run_command",
                 <<"svnadmin", "create", "--fs-type=bdb", "--bdb-txn-nosync",
                   o.target[1]>>)>>
  ELSE <<Event("run_command",
               <<"svnadmin", "create", "--fs-type=" \o o.fs_type[1], o.target[1]>>)>>

\* What a method did: the events, the exception it raised and DB_CONFIG
\* afterwards.
Done(evs, exc, file) == [events |-> evs, exc |-> exc, file |-> file]

\* run_command raises FatalError if the command fails.
run_command_fails(e) == ~e.svnadmin_ok

\* NewRepositoryOutputOption.setup; `created' is the DB_CONFIG that svnadmin
\* create leaves.
NewRepositoryOutputOption_setup(o, dry_run, e, file, created) ==
  LET create == CreateCommand(o, dry_run)
  IN IF create = <<>>
       THEN Done(RepositoryOutputOption_setup(o, dry_run), "none", file)
     ELSE IF run_command_fails(e) THEN Done(create, "FatalError", file)
     ELSE Done(create \o RepositoryOutputOption_setup(o, dry_run), "none", created)

\* SVNOutputOption.cleanup
SVNOutputOption_cleanup ==
  <<Event("repos.close", <<>>), Event("revision_reader.finish", <<>>)>>

\* contents.index(line): the first index of line, 0 for ValueError.
RECURSIVE IndexFrom(_, _, _)
IndexFrom(contents, line, i) ==
  IF i > Len(contents) THEN 0
  ELSE IF contents[i] = line THEN i
  ELSE IndexFrom(contents, line, i + 1)

Index(contents, line) == IndexFrom(contents, line, 1)

\* NewRepositoryOutputOption.cleanup
NewRepositoryOutputOption_cleanup(o, dry_run, file) ==
  IF dry_run THEN Done(SVNOutputOption_cleanup, "none", file)
  ELSE IF ~o.bdb_txn_nosync /\ file.exists
    THEN LET index == Index(file.lines, no_sync)
             reading == SVNOutputOption_cleanup \o <<Event("open", <<"db/DB_CONFIG", "r">>)>>
         IN IF index = 0
              THEN Done(reading, "ValueError", file)
              ELSE Done(reading \o <<Event("open", <<"db/DB_CONFIG", "w">>)>>, "none",
                        File([file.lines EXCEPT ![index] = "# " \o no_sync]))
  ELSE Done(SVNOutputOption_cleanup, "none", file)

\* ExistingRepositoryOutputOption.check
ExistingRepositoryOutputOption_check(target, dry_run, e) ==
  LET r == RepositoryOutputOption_check(dry_run, e)
  IN IF r.result.exc # "none" THEN r
     ELSE IF ~IsDir(target, e)
       THEN Checked(Raise("FatalError", "the svn-repos-path is not an existing directory."),
                    r.svnadmin_runs)
     ELSE r

\* check() of the output option
check(o, dry_run, e) ==
  CASE o.class = "DumpfileOutputOption" -> Checked(NoResult, 0)
    [] o.class = "ExistingRepositoryOutputOption" ->
         ExistingRepositoryOutputOption_check(o.target, dry_run, e)
    [] OTHER -> NewRepositoryOutputOption_check(o.target, dry_run, e)

\* setup() of the output option
setup(o, dry_run, e, file, created) ==
  CASE o.class = "DumpfileOutputOption" ->
         Done(DumpfileOutputOption_setup(o, dry_run), "none", file)
    [] o.class = "ExistingRepositoryOutputOption" ->
         Done(RepositoryOutputOption_setup(o, dry_run), "none", file)
    [] OTHER -> NewRepositoryOutputOption_setup(o, dry_run, e, file, created)

\* cleanup() of the output option
cleanup(o, dry_run, file) ==
  IF o.class = "NewRepositoryOutputOption"
    THEN NewRepositoryOutputOption_cleanup(o, dry_run, file)
    ELSE Done(SVNOutputOption_cleanup, "none", file)

\* The lines a DB_CONFIG is made of, and the files of up to MaxLines lines.
MaxLines == 2

Lines == {no_sync, "# " \o no_sync, "set_lg_max 1048576\n"}

Files == {File(lines) : lines \in SeqsUpTo(Lines, MaxLines)}

\* What a method did becomes the state of the option.
Life(done, phase) ==
  /\ option' = [option EXCEPT !.phase = IF done.exc = "none" THEN phase ELSE "raised",
                              !.exc = done.exc]
  /\ events' = events \o done.events
  /\ db_config' = done.file

lifeFrame == <<ctx, run, loc, pc, result, seen, env, svnadmin_runs, printed, log_level,
               outVars, verVars>>

Check ==
  /\ option.phase = "new"
  /\ option_check' = check(option, ctx.dry_run, env)
  /\ Life(Done(IF option_check'.svnadmin_runs > 0
                 THEN <<Event("check_command_runs", <<"svnadmin", "help">>)>>
                 ELSE <<>>,
               option_check'.result.exc, db_config), "checked")
  /\ UNCHANGED lifeFrame

\* setup(); svnadmin create leaves a repository with or without a
\* DB_CONFIG, whose lines are svnadmin's choice.
Setup ==
  /\ option.phase \in {"new", "checked"}
  /\ \E created \in Files \cup {Absent} :
       Life(setup(option, ctx.dry_run, env, db_config, created), "setup")
  /\ UNCHANGED <<lifeFrame, option_check>>

Cleanup ==
  /\ option.phase = "setup"
  /\ Life(cleanup(option, ctx.dry_run, db_config), "cleaned")
  /\ UNCHANGED <<lifeFrame, option_check>>

-----------------------------------------------------------------------------
(* verify-cvs2svn: Failures, file_compare, tree_compare.                   *)

\* Failures.__init__; `reports' is the summaries written as ANOMALY lines.
NoFailures == [count |-> 0, reports |-> <<>>]

\* Failures.report(summary)
report(f, summary) == [count |-> f.count + 1, reports |-> Append(f.reports, summary)]

\* Failures.__nonzero__
nonzero(f) == f.count > 0

\* What a path leads to: nothing, a file with its st_mode and its bytes, or
\* a directory with its entries by name.
NoPath == [type |-> "none", mode |-> 0, data |-> <<>>, entries |-> <<>>]
RegularFile(mode, data) == [type |-> "file", mode |-> mode, data |-> data, entries |-> <<>>]
Directory(entries) == [type |-> "dir", mode |-> 0, data |-> <<>>, entries |-> entries]

\* What a compare function gave: the Failures afterwards and its value.
Compared(f, ok) == [failures |-> f, ok |-> ok]

\* Variant: only the owner's execute bit is kept.
OwnerBits_ExecuteOnly(mode) == ((mode \div 64) % 2) * 64

\* st_mode & 0700
OwnerBits(mode) == ((mode \div 64) % 8) * 64

\* The number of bytes file.read asks for at a time (8192 in the source).
ChunkSize == 2

\* file.read(ChunkSize) at offset pos
Read(data, pos) ==
  SubSeq(data, pos + 1, IF pos + ChunkSize < Len(data) THEN pos + ChunkSize ELSE Len(data))

\* The `while True' loop of file_compare.
RECURSIVE ReadLoop(_, _, _, _, _)
ReadLoop(f, data1, data2, pos, ok) ==
  LET d1 == Read(data1, pos)
      d2 == Read(data2, pos)
      f1 == IF d1 # d2 THEN report(f, "File contents differ") ELSE f
      ok1 == ok /\ d1 = d2
  IN IF Len(d1) = 0 THEN Compared(f1, ok1)
     ELSE ReadLoop(f1, data1, data2, pos + ChunkSize, ok1)

\* file_compare(failures, base1, base2, run_diff, rel_path), where file1 and
\* file2 are the files at the two paths.
file_compare(f, file1, file2) ==
  LET differ == OwnerBits(file1.mode) # OwnerBits(file2.mode)
      f1 == IF differ THEN report(f, "File modes differ") ELSE f
  IN ReadLoop(f1, file1.data, file2.data, 0, ~differ)

\* The names a directory can hold, in sorted order.
NameOrder == <<"a", "b">>

\* os.listdir(path), sorted
listdir(dir) == SelectSeq(NameOrder, LAMBDA n : n \in DOMAIN dir.entries)

\* What the path of `entry' under dir leads to.
Child(dir, entry) == IF entry \in DOMAIN dir.entries THEN dir.entries[entry] ELSE NoPath

\* tree_compare(failures, base1, base2, run_diff, rel_path), where path1 and
\* path2 are what the two paths lead to.
RECURSIVE tree_compare(_, _, _)
tree_compare(f, path1, path2) ==
  IF path1.type = "none" THEN Compared(report(f, "path1 does not exist"), FALSE)
  ELSE IF path2.type = "none" THEN Compared(report(f, "path2 does not exist"), FALSE)
  ELSE IF path1.type = "file" /\ path2.type = "file" THEN file_compare(f, path1, path2)
  ELSE IF ~(path1.type = "dir" /\ path2.type = "dir")
    THEN Compared(report(f, "Path types differ"), FALSE)
  ELSE
    LET entries1 == listdir(path1)
        entries2 == listdir(path2)
        missing == SelectSeq(entries1, LAMBDA x : x \notin DOMAIN path2.entries)
        extra == SelectSeq(entries2, LAMBDA x : x \notin DOMAIN path1.entries)
        f1 == IF missing # <<>> THEN report(f, "Directory is missing entries") ELSE f
        f2 == IF extra # <<>> THEN report(f1, "Directory has extra entries") ELSE f1
        Loop[i \in 1..(Len(entries1) + 1)] ==
          IF i = 1 THEN Compared(f2, TRUE)
          ELSE LET sub == tree_compare(Loop[i - 1].failures,
                                       Child(path1, entries1[i - 1]),
                                       Child(path2, entries1[i - 1]))
               IN Compared(sub.failures, Loop[i - 1].ok /\ sub.ok)
    IN Loop[Len(entries1) + 1]

\* The value a compare function returned, if one was called.
NotCalled == [called |-> FALSE, function |-> "none", ok |-> FALSE]
Called(function, ok) == [called |-> TRUE, function |-> function, ok |-> ok]

-----------------------------------------------------------------------------
(* verify-cvs2svn: transform_symbol.                                       *)

\* A rule of ctx.symbol_transforms.  A name, a pattern and a replacement
\* are sequences of characters; the pattern is a literal, not empty.
Transform(pattern, replacement) == [pattern |-> pattern, replacement |-> replacement]

\* pattern.sub(replacement, name): every occurrence of the pattern, found
\* from the left and not overlapping, is replaced.
RECURSIVE SubFrom(_, _, _, _)
SubFrom(pattern, replacement, name, i) ==
  IF i > Len(name) THEN <<>>
  ELSE IF i + Len(pattern) - 1 <= Len(name)
          /\ SubSeq(name, i, i + Len(pattern) - 1) = pattern
    THEN replacement \o SubFrom(pattern, replacement, name, i + Len(pattern))
  ELSE <<name[i]>> \o SubFrom(pattern, replacement, name, i + 1)

Sub(pattern, replacement, name) == SubFrom(pattern, replacement, name, 1)

\* Variant: the rules after the first that changes the name are skipped.
RECURSIVE transform_symbol_FirstMatch(_, _)
transform_symbol_FirstMatch(symbol_transforms, name) ==
  IF symbol_transforms = <<>> THEN name
  ELSE LET rule == Head(symbol_transforms)
           newname == Sub(rule.pattern, rule.replacement, name)
       IN IF newname # name THEN newname
          ELSE transform_symbol_FirstMatch(Tail(symbol_transforms), name)

\* transform_symbol(ctx, name), where symbol_transforms is
\* ctx.symbol_transforms.
RECURSIVE transform_symbol(_, _)
transform_symbol(symbol_transforms, name) ==
  IF symbol_transforms = <<>> THEN name
  ELSE LET rule == Head(symbol_transforms)
           newname == Sub(rule.pattern, rule.replacement, name)
       IN transform_symbol(Tail(symbol_transforms),
                           IF newname # name THEN newname ELSE name)

NoSymbol == [rules |-> <<>>, names |-> <<>>]

-----------------------------------------------------------------------------
(* verify-cvs2svn: main, verify_contents, verify_contents_single.          *)

\* The options parse_args returns.  A label is a sequence of characters,
\* <<>> where the option has no value; symbol_transform holds the values of
\* the --symbol-transform options, split at ':'; symbol_transforms is the
\* attribute set_defaults made, which no option stores to, and so is
\* skip_cleanup.
VerifyOptions(branch, tag, trunk, symbol_transform, repos_type) ==
  [branch |-> branch, tag |-> tag, trunk |-> trunk,
   symbol_transform |-> symbol_transform, symbol_transforms |-> <<>>,
   repos_type |-> repos_type, skip_cleanup |-> FALSE]

NoVerifyOptions == VerifyOptions(<<>>, <<>>, FALSE, <<>>, "svn")

\* One call of verify_contents_single to make, one export made.
Item(kind, label) == [kind |-> kind, label |-> label]
Export(side, kind, label) == [side |-> side, kind |-> kind, label |-> label]

\* An export directory under ctx.tempdir: '<side>-export-<itemname>'.
ExportDir(side, itemname) == [side |-> side, itemname |-> itemname]

\* What verifyrepos.tags() and verifyrepos.branches() return.
Listed(tags, branches) == [tags |-> tags, branches |-> branches]

\* main() before it starts.  `all' says that verify_contents is what main
\* calls, `calls' is the calls of verify_contents_single that ended, `dirs'
\* the export directories that exist, `summary' the lines verify_contents
\* printed at its end.
Started(options, nargs) ==
  [pc |-> "start", options |-> options, nargs |-> nargs, error |-> "none",
   status |-> -1, todo |-> <<>>, exports |-> <<>>, anomalies |-> <<>>,
   all |-> FALSE, listed |-> Listed(<<>>, <<>>), calls |-> <<>>, dirs |-> {},
   summary |-> <<>>]

NoRun == [Started(NoVerifyOptions, 0) EXCEPT !.pc = "none"]

NoVerify ==
  /\ tree1 = NoPath
  /\ tree2 = NoPath
  /\ failures = NoFailures
  /\ ret = NotCalled
  /\ symbol = NoSymbol
  /\ vrun = NoRun

\* The loop over options.symbol_transforms: the exception it ends with.
\* RegexpSymbolTransform is not defined in verify-cvs2svn.py.
ParseTransforms(values) ==
  IF values = <<>> THEN "none"
  ELSE IF Len(values[1]) # 2 THEN "ValueError"
  ELSE "NameError"

\* main() up to `failures = Failures()'.
Main_Parse ==
  /\ vrun.pc = "start"
  /\ vrun' =
       IF ParseTransforms(vrun.options.symbol_transforms) # "none"
         THEN [vrun EXCEPT !.pc = "exited", !.status = 1,
                           !.error = ParseTransforms(vrun.options.symbol_transforms)]
       ELSE IF vrun.nargs # 2 THEN [vrun EXCEPT !.pc = "exited", !.status = 2]
       ELSE [vrun EXCEPT !.pc = "open"]
  /\ failures' = NoFailures
  /\ UNCHANGED <<ctx, optVars, outVars, lifeVars, tree1, tree2, ret, symbol>>

\* branch[:10] == 'unlabeled-', for a label whose first element stands for
\* those ten characters.
IsUnlabeled(branch) == branch # <<>> /\ branch[1] = "unlabeled-"

\* The calls of verify_contents_single that main makes, where tags and
\* branches are verifyrepos.tags() and verifyrepos.branches().
Todo(options, tags, branches) ==
  IF options.branch # <<>> THEN <<Item("branch", options.branch)>>
  ELSE IF options.tag # <<>> THEN <<Item("tag", options.tag)>>
  ELSE IF options.trunk THEN <<Item("trunk", <<>>)>>
  ELSE <<Item("trunk", <<>>)>>
         \o [i \in 1..Len(tags) |-> Item("tag", tags[i])]
         \o [i \in 1..Len(SelectSeq(branches, LAMBDA b : ~IsUnlabeled(b))) |->
               Item("branch", SelectSeq(branches, LAMBDA b : ~IsUnlabeled(b))[i])]

\* The repositories are opened: CvsRepos(cvs_path) and
\* verify_klass(verify_path) return or raise RuntimeError; GitRepos raises
\* NotImplementedError, which is a RuntimeError.
Main_Open(opens, tags, branches) ==
  /\ vrun.pc = "open"
  /\ vrun' =
       IF ~opens \/ vrun.options.repos_type = "git"
         THEN [vrun EXCEPT !.pc = "finished", !.error = "RuntimeError"]
         ELSE [vrun EXCEPT !.pc = "verifying",
                           !.todo = Todo(vrun.options, tags, branches),
                           !.all = /\ vrun.options.branch = <<>>
                                   /\ vrun.options.tag = <<>>
                                   /\ ~vrun.options.trunk,
                           !.listed = Listed(tags, branches)]
  /\ UNCHANGED <<ctx, optVars, outVars, lifeVars, tree1, tree2, failures, ret, symbol>>

\* itemname = kind + (kind != 'trunk' and '-' + label or '')
ItemName(kind, label) == IF kind # "trunk" THEN <<kind, "-">> \o label ELSE <<kind>>

\* Variant: the finally clause removes the CVS export directory only.
Finally_CvsOnly(options, dirs, cvs_export_dir, vrf_export_dir) ==
  IF ~options.skip_cleanup THEN dirs \ {cvs_export_dir} ELSE dirs

\* The finally clause of verify_contents_single: the directories that exist
\* after it, of those that existed before.
Finally(options, dirs, cvs_export_dir, vrf_export_dir) ==
  IF ~options.skip_cleanup THEN dirs \ {cvs_export_dir, vrf_export_dir} ELSE dirs

\* How a call of verify_contents_single ended: its value (-1 if it raised),
\* the exception, the Failures object, the exports made and the export
\* directories that exist.
Ended(value, exc, f, exports, dirs) ==
  [value |-> value, raised |-> exc, failures |-> f, exports |-> exports, dirs |-> dirs]

\* verify_contents_single(failures, cvsrepos, verifyrepos, kind, label, ctx)
\* with the directories `dirs' in ctx.tempdir.  The exports return the
\* trees t1 and t2 or, if fails is "cvs" or "verify", the command of that
\* side fails and RuntimeError is raised; a failed export of the repository
\* verified leaves its directory behind or not (partial).  os.mkdir raises
\* OSError if the CVS export directory exists.
verify_contents_single(f, kind, label, options, dirs, t1, t2, fails, partial) ==
  LET itemname == ItemName(kind, label)
      cvs_export_dir == ExportDir("cvs", itemname)
      vrf_export_dir == ExportDir(options.repos_type, itemname)
      cvslabel == IF label # <<>>
                    THEN transform_symbol(options.symbol_transforms, label)
                    ELSE <<>>
      cvs == Export("cvs", kind, cvslabel)
      vrf == Export(options.repos_type, kind, label)
      compared == tree_compare(f, t1, t2)
  IN IF cvs_export_dir \in dirs
       THEN Ended(-1, "OSError", f, <<>>,
                  Finally(options, dirs, cvs_export_dir, vrf_export_dir))
     ELSE IF fails = "cvs"
       THEN Ended(-1, "RuntimeError", f, <<cvs>>,
                  Finally(options, dirs \cup {cvs_export_dir},
                          cvs_export_dir, vrf_export_dir))
     ELSE IF fails = "verify"
       THEN Ended(-1, "RuntimeError", f, <<cvs, vrf>>,
                  Finally(options,
                          dirs \cup {cvs_export_dir}
                               \cup (IF partial THEN {vrf_export_dir} ELSE {}),
                          cvs_export_dir, vrf_export_dir))
     ELSE Ended(IF compared.ok THEN 1 ELSE 0, "none", compared.failures, <<cvs, vrf>>,
                Finally(options, dirs \cup {cvs_export_dir, vrf_export_dir},
                        cvs_export_dir, vrf_export_dir))

\* One call of verify_contents_single that ended: its item, its value and
\* the number of anomalies reported during it.
Call(item, value, reports) == [item |-> item, value |-> value, reports |-> reports]

\* 'trunk', 'tag:' + tag, 'branch:' + branch
AnomalyName(item) ==
  IF item.kind = "trunk" THEN <<"trunk">> ELSE <<item.kind, ":">> \o item.label

\* The lines verify_contents prints at its end.
Summary(anomalies) ==
  IF Len(anomalies) = 0 THEN << <<"No content anomalies detected">> >>
  ELSE << <<Len(anomalies), "content",
            IF Len(anomalies) = 1 THEN "anomaly" ELSE "anomalies", "detected:">> >>
         \o [i \in 1..Len(anomalies) |-> AnomalyName(anomalies[i])]

\* main or verify_contents calls verify_contents_single for the next item.
\* A RuntimeError ends the try statement of main, an OSError ends the
\* program; after the last item verify_contents prints its summary.
VerifyContentsSingle(t1, t2, fails, partial) ==
  /\ vrun.pc = "verifying"
  /\ vrun.todo # <<>>
  /\ LET item == Head(vrun.todo)
         ended == verify_contents_single(failures, item.kind, item.label, vrun.options,
                                         vrun.dirs, t1, t2, fails, partial)
         anomalies == IF ended.value = 0 THEN Append(vrun.anomalies, item)
                      ELSE vrun.anomalies
         called == [vrun EXCEPT
                      !.exports = @ \o ended.exports,
                      !.dirs = ended.dirs,
                      !.calls = Append(@, Call(item, ended.value,
                                               ended.failures.count - failures.count))]
     IN /\ vrun' =
             IF ended.raised = "OSError"
               THEN [called EXCEPT !.pc = "exited", !.status = 1, !.error = "OSError"]
             ELSE IF ended.raised # "none"
               THEN [called EXCEPT !.pc = "finished", !.error = ended.raised]
             ELSE [called EXCEPT
                     !.todo = Tail(@),
                     !.anomalies = anomalies,
                     !.summary = IF vrun.all /\ Tail(vrun.todo) = <<>>
                                   THEN Summary(anomalies) ELSE @]
        /\ failures' = ended.failures
        /\ tree1' = IF Len(ended.exports) = 2 THEN t1 ELSE tree1
        /\ tree2' = IF ended.raised = "none" THEN t2 ELSE tree2
        /\ ret' = IF ended.raised = "none"
                    THEN Called("verify_contents_single", ended.value = 1)
                    ELSE ret
  /\ UNCHANGED <<ctx, optVars, outVars, lifeVars, symbol>>

\* sys.exit(failures and 1 or 0), after the try statement.
Main_Exit ==
  /\ \/ vrun.pc = "finished"
     \/ vrun.pc = "verifying" /\ vrun.todo = <<>>
  /\ vrun' = [vrun EXCEPT !.pc = "exited",
                          !.status = IF nonzero(failures) THEN 1 ELSE 0]
  /\ UNCHANGED <<ctx, optVars, outVars, lifeVars, tree1, tree2, failures, ret, symbol>>

-----------------------------------------------------------------------------
(* The items an svn_commit carries. *)

\* The CVSRevision classes output_option.py imports, and "Other" for an
\* instance of none of them.
KnownRevTypes == {"Add", "Change", "Delete", "Noop"}
RevTypes == KnownRevTypes \cup {"Other"}

\* svn_commit.cvs_revs: one revision per file (file i is the i-th of the commit).
CvsRevs(types) == [i \in 1..Len(types) |-> [type |-> types[i], file |-> i]]

\* cvs_rev.get_svn_path(): the path of the revision on its line of development.
get_svn_path(cvs_rev) == <<"lod", cvs_rev.file>>

\* cvs_rev.cvs_file.project.get_trunk_path(cvs_rev.cvs_path)
get_trunk_path(cvs_rev) == <<"trunk", cvs_rev.file>>

\* A project: trunk_path may be '' (the empty path) in a trunk-only conversion.
Project(id, has_trunk) ==
  [ id |-> id,
    trunk_path |-> IF has_trunk THEN <<"trunk", id>> ELSE <<>>,
    branches_path |-> <<"branches", id>>,
    tags_path |-> <<"tags", id>> ]

Projects(flags) == [i \in 1..Len(flags) |-> Project(i, flags[i])]

SvnCommit(kind, rev, cvs_revs, motivating, projects) ==
  [ kind |-> kind, revnum |-> rev, cvs_revs |-> cvs_revs,
    motivating_revnum |-> motivating, projects |-> projects ]

NoCommit == SvnCommit("none", 0, <<>>, 0, <<>>)

-----------------------------------------------------------------------------
(* The calls on self.repos, the SVNRepositoryMirror. *)

MirrorCall(op, path, src, rev, flag) ==
  [op |-> op, path |-> path, src |-> src, rev |-> rev, flag |-> flag]

start_commit(rev) == MirrorCall("start_commit", <<>>, <<>>, rev, "-")
end_commit == MirrorCall("end_commit", <<>>, <<>>, 0, "-")
mkdir(path) == MirrorCall("mkdir", path, <<>>, 0, "-")
add_path(cvs_rev) == MirrorCall("add_path", get_svn_path(cvs_rev), <<>>, 0, "-")
change_path(cvs_rev) == MirrorCall("change_path", get_svn_path(cvs_rev), <<>>, 0, "-")
\* delete_path(path, prune): flag is the prune argument, "default" when omitted
delete_path(path, flag) == MirrorCall("delete_path", path, <<>>, 0, flag)
\* copy_path(src_path, dest_path, src_revnum, enforce_empty_dst)
copy_path(src, dst, rev, enforce) == MirrorCall("copy_path", dst, src, rev, enforce)
fill_symbol(svn_commit) == MirrorCall("fill_symbol", <<"symbol">>, <<>>, svn_commit.revnum, "-")

Bool(b) == IF b THEN "True" ELSE "False"

Mutations == {"mkdir", "add_path", "change_path", "delete_path", "copy_path", "fill_symbol"}

\* What a process_* call did: the mirror calls it made, and how it ended.
Returned(calls) == [calls |-> calls, raised |-> "none"]
Raised(calls, exc) == [calls |-> calls, raised |-> exc]

\* The mirror's count of open commits after `calls', starting from n.
RECURSIVE OpenAfter(_, _)
OpenAfter(n, calls) ==
  IF calls = <<>> THEN n
  ELSE OpenAfter(
         CASE Head(calls).op = "start_commit" -> n + 1
           [] Head(calls).op = "end_commit" -> n - 1
           [] OTHER -> n,
         Tail(calls))

-----------------------------------------------------------------------------
(* SVNOutputOption: each process_* method, as the calls it makes on the    *)
(* mirror and the way it ends.                                             *)

\* InitialProjectDirs with trunk made after branches and tags.
InitialProjectDirs_TrunkLast(project) ==
  (IF ~ctx.trunk_only
     THEN <<mkdir(project.branches_path), mkdir(project.tags_path)>>
     ELSE <<>>)
  \o (IF project.trunk_path # <<>> THEN <<mkdir(project.trunk_path)>> ELSE <<>>)

\* The loop body of process_initial_project_commit for one project.
InitialProjectDirs(project) ==
  (IF project.trunk_path # <<>> THEN <<mkdir(project.trunk_path)>> ELSE <<>>)
  \o (IF ~ctx.trunk_only
        THEN <<mkdir(project.branches_path), mkdir(project.tags_path)>>
        ELSE <<>>)

process_initial_project_commit(svn_commit) ==
  Returned(
    <<start_commit(svn_commit.revnum)>>
    \o Flatten([i \in 1..Len(svn_commit.projects) |->
                  InitialProjectDirs(svn_commit.projects[i])])
    \o <<end_commit>>)

\* The if/elif chain of process_primary_commit for one revision; it has no
\* else branch, so a revision of no known class falls through.
PrimaryRevCalls(cvs_rev) ==
  CASE cvs_rev.type = "Noop" -> <<>>
    [] cvs_rev.type = "Delete" -> <<delete_path(get_svn_path(cvs_rev), Bool(ctx.prune))>>
    [] cvs_rev.type = "Add" -> <<add_path(cvs_rev)>>
    [] cvs_rev.type = "Change" -> <<change_path(cvs_rev)>>
    [] OTHER -> <<>>

\* process_primary_commit without its end_commit.
process_primary_commit_NoEnd(svn_commit) ==
  Returned(
    <<start_commit(svn_commit.revnum)>>
    \o Flatten([i \in 1..Len(svn_commit.cvs_revs) |->
                  PrimaryRevCalls(svn_commit.cvs_revs[i])]))

process_primary_commit(svn_commit) ==
  Returned(
    <<start_commit(svn_commit.revnum)>>
    \o Flatten([i \in 1..Len(svn_commit.cvs_revs) |->
                  PrimaryRevCalls(svn_commit.cvs_revs[i])])
    \o <<end_commit>>)

\* PostRevCalls with the copy of a Change made before the delete.
PostRevCalls_CopyFirst(cvs_rev, motivating_revnum) ==
  CASE cvs_rev.type = "Add" ->
         <<copy_path(get_svn_path(cvs_rev), get_trunk_path(cvs_rev),
                     motivating_revnum, "True")>>
    [] cvs_rev.type = "Change" ->
         <<copy_path(get_svn_path(cvs_rev), get_trunk_path(cvs_rev),
                     motivating_revnum, "True"),
           delete_path(get_trunk_path(cvs_rev), "default")>>
    [] cvs_rev.type = "Delete" -> <<delete_path(get_trunk_path(cvs_rev), "default")>>
    [] OTHER -> <<>>

\* The if/elif chain of process_post_commit for one revision.
PostRevCalls(cvs_rev, motivating_revnum) ==
  CASE cvs_rev.type = "Add" ->
         <<copy_path(get_svn_path(cvs_rev), get_trunk_path(cvs_rev),
                     motivating_revnum, "True")>>
    [] cvs_rev.type = "Change" ->
         <<delete_path(get_trunk_path(cvs_rev), "default"),
           copy_path(get_svn_path(cvs_rev), get_trunk_path(cvs_rev),
                     motivating_revnum, "True")>>
    [] cvs_rev.type = "Delete" -> <<delete_path(get_trunk_path(cvs_rev), "default")>>
    [] OTHER -> <<>>

\* The for loop of process_post_commit from revision i on, `calls' made so
\* far: the else branch raises InternalError and the loop is left.
RECURSIVE PostLoop(_, _, _)
PostLoop(svn_commit, i, calls) ==
  IF i > Len(svn_commit.cvs_revs)
    THEN Returned(calls \o <<end_commit>>)
    ELSE IF svn_commit.cvs_revs[i].type \in KnownRevTypes
      THEN PostLoop(svn_commit, i + 1,
                    calls \o PostRevCalls(svn_commit.cvs_revs[i],
                                          svn_commit.motivating_revnum))
      ELSE Raised(calls, "InternalError")

process_post_commit(svn_commit) ==
  PostLoop(svn_commit, 1, <<start_commit(svn_commit.revnum)>>)

process_branch_commit(svn_commit) ==
  Returned(<<start_commit(svn_commit.revnum), fill_symbol(svn_commit), end_commit>>)

process_tag_commit(svn_commit) ==
  Returned(<<start_commit(svn_commit.revnum), fill_symbol(svn_commit), end_commit>>)

-----------------------------------------------------------------------------
(* The output pass: it calls one process_* method per svn_commit, revnums  *)
(* 1, 2, ... in order, and an exception ends the run.                      *)

Running == raised = "none" /\ revnum < MaxCommits

\* The call returns or raises: the mirror has seen outcome.calls.
Process(svn_commit, outcome) ==
  /\ log' = outcome.calls
  /\ open' = OpenAfter(open, outcome.calls)
  /\ raised' = outcome.raised
  /\ last' = svn_commit
  /\ revnum' = svn_commit.revnum
  /\ UNCHANGED <<ctx, optVars, lifeVars, verVars>>

ProcessInitialProjectCommit ==
  /\ Running
  /\ \E flags \in SeqsUpTo(BOOLEAN, MaxProjects) :
       LET svn_commit == SvnCommit("initial", revnum + 1, <<>>, 0, Projects(flags))
       IN Process(svn_commit, process_initial_project_commit(svn_commit))

ProcessPrimaryCommit ==
  /\ Running
  /\ \E types \in SeqsUpTo(RevTypes, MaxRevs) :
       LET svn_commit == SvnCommit("primary", revnum + 1, CvsRevs(types), 0, <<>>)
       IN Process(svn_commit, process_primary_commit(svn_commit))

\* A post-commit follows the primary commit that motivates it.
ProcessPostCommit ==
  /\ Running
  /\ revnum >= 1
  /\ \E types \in SeqsUpTo(RevTypes, MaxRevs), motivating \in 1..revnum :
       LET svn_commit == SvnCommit("post", revnum + 1, CvsRevs(types), motivating, <<>>)
       IN Process(svn_commit, process_post_commit(svn_commit))

ProcessBranchCommit ==
  /\ Running
  /\ LET svn_commit == SvnCommit("branch", revnum + 1, <<>>, 0, <<>>)
     IN Process(svn_commit, process_branch_commit(svn_commit))

ProcessTagCommit ==
  /\ Running
  /\ LET svn_commit == SvnCommit("tag", revnum + 1, <<>>, 0, <<>>)
     IN Process(svn_commit, process_tag_commit(svn_commit))

InitOutput ==
  /\ \E t \in BOOLEAN, p \in BOOLEAN :
       ctx = [CtxDefaults EXCEPT !.trunk_only = t, !.prune = p]
  /\ open = 0
  /\ log = <<>>
  /\ last = NoCommit
  /\ raised = "none"
  /\ revnum = 0
  /\ run = RunDefaults
  /\ loc = Locals
  /\ pc = "returned"
  /\ result = NoResult
  /\ seen = <<>>
  /\ env = NoEnv
  /\ svnadmin_runs = 0
  /\ printed = <<>>
  /\ log_level = "NORMAL"
  /\ option_check = NotChecked
  /\ NoLifecycle
  /\ NoVerify

NextOutput ==
  \/ ProcessInitialProjectCommit
  \/ ProcessPrimaryCommit
  \/ ProcessPostCommit
  \/ ProcessBranchCommit
  \/ ProcessTagCommit

SpecOutput == InitOutput /\ [][NextOutput]_vars

-----------------------------------------------------------------------------
(* The command lines explored.  Each specification draws the options from  *)
(* one family, so that enough of them can be combined.                     *)

MaxCount == 2
MaxSymbolOptions == 3
MaxPassOptions == 2
MaxEncodings == 3

InitOptions ==
  /\ ctx = CtxDefaults
  /\ run = RunDefaults
  /\ loc = Locals
  /\ pc = "opts"
  /\ result = NoResult
  /\ seen = <<>>
  /\ env = NoEnv
  /\ svnadmin_runs = 0
  /\ printed = <<>>
  /\ log_level = "NORMAL"
  /\ option_check = NotChecked
  /\ open = 0
  /\ log = <<>>
  /\ last = NoCommit
  /\ raised = "none"
  /\ revnum = 0
  /\ NoLifecycle
  /\ NoVerify

\* One argument, a target path that does not exist, an svnadmin that runs.
PlainEnv == Env(1, FALSE, FALSE, TRUE)

\* The options that choose the output and the ones that conflict.
FlagOptions ==
  {Option("-s", Str("")), Option("-s", Str("repo")), Flag("--dump-only"),
   Flag("--dry-run"), Flag("--existing-svnrepos"), Flag("--bdb-txn-nosync"),
   Flag("-q"), Flag("-v"), Flag("--help"),
   Option("--fs-type", Str("")), Option("--fs-type", Str("bdb")),
   Option("--fs-type", Str("fsfs"))}

FlagStep ==
  \E o \in FlagOptions :
    /\ o.opt = "-q" => loc.quiet < MaxCount
    /\ o.opt = "-v" => loc.verbose < MaxCount
    /\ ProcessOption(o)

FlagFinish == \E e \in Envs : Finish(e)

NextFlags == FlagStep \/ FlagFinish \/ OutputOptionCheck

SpecFlags == InitOptions /\ [][NextFlags]_vars

\* The options of the symbol strategy.
SymbolOptions ==
  {Option("--force-branch", Str("a")), Option("--force-branch", Str("b")),
   Option("--force-tag", Str("a")), Option("--exclude", Str("a")),
   Option("--symbol-default", Str("branch")), Option("--symbol-default", Str("tag")),
   Option("--symbol-default", Str("heuristic")),
   Option("--symbol-default", Str("strict")),
   Option("--symbol-default", Str("none"))}

SymbolStep ==
  \/ \E o \in SymbolOptions : Len(seen) < MaxSymbolOptions /\ ProcessOption(o)
  \/ ProcessOption(Flag("--dump-only"))

PlainFinish == Finish(PlainEnv)

NextSymbols == SymbolStep \/ PlainFinish

SpecSymbols == InitOptions /\ [][NextSymbols]_vars

\* The '-p' options: PASS, START:END with either side possibly empty, and a
\* value with two colons; "4" is no pass.
PassNames == {"", "1", "2", "3", "4"}

PassOptions ==
  {Option("-p", Str(n)) : n \in PassNames}
    \cup {Option("-p", <<a, b>>) : a \in PassNames, b \in PassNames}
    \cup {Option("-p", <<"1", "2", "3">>)}

PassStep ==
  \/ \E o \in PassOptions : Len(seen) < MaxPassOptions /\ ProcessOption(o)
  \/ ProcessOption(Flag("--dump-only"))

NextPasses == PassStep \/ PlainFinish

SpecPasses == InitOptions /\ [][NextPasses]_vars

EncodingOptions ==
  {Option("--encoding", Str(enc)) : enc \in {"utf8", "latin1", "ascii"}}

EncodingStep ==
  \/ \E o \in EncodingOptions : Len(seen) < MaxEncodings /\ ProcessOption(o)
  \/ ProcessOption(Flag("--dump-only"))

NextEncodings == EncodingStep \/ PlainFinish

SpecEncodings == InitOptions /\ [][NextEncodings]_vars

\* The options of the property setters.
MaxRevnums == 2

SetterOptions ==
  {Flag("--cvs-revnums"), Option("--mime-types", Str("")),
   Option("--mime-types", Str("mime.types")), Option("--auto-props", Str("props")),
   Flag("--auto-props-ignore-case"), Flag("--eol-from-mime-type"),
   Flag("--no-default-eol"), Flag("--keywords-off")}

SetterStep ==
  \/ \E o \in SetterOptions :
       /\ o.opt = "--cvs-revnums" => Len(ctx.svn_property_setters) < MaxRevnums
       /\ ProcessOption(o)
  \/ ProcessOption(Flag("--dump-only"))

NextSetters == SetterStep \/ PlainFinish

SpecSetters == InitOptions /\ [][NextSetters]_vars

\* The output options set up: one of each class, a new repository with
\* each fs_type and bdb_txn_nosync.
Options ==
  {OutputOption("DumpfileOutputOption", Str("dumpfile"), None, FALSE),
   OutputOption("ExistingRepositoryOutputOption", Str("repo"), None, FALSE)}
    \cup {OutputOption("NewRepositoryOutputOption", Str("repo"), t, n) :
            t \in {None, Str(""), Str("bdb"), Str("fsfs")}, n \in BOOLEAN}

\* An output option was constructed; the target path exists or not, and if
\* it is a directory it may hold a db/DB_CONFIG.
InitLife ==
  /\ \E d \in BOOLEAN : ctx = [CtxDefaults EXCEPT !.dry_run = d]
  /\ run = RunDefaults
  /\ loc = Locals
  /\ pc = "returned"
  /\ result = NoResult
  /\ seen = <<>>
  /\ env \in {e \in Envs : e.nargs = 1}
  /\ svnadmin_runs = 0
  /\ printed = <<>>
  /\ log_level = "NORMAL"
  /\ option_check = NotChecked
  /\ open = 0
  /\ log = <<>>
  /\ last = NoCommit
  /\ raised = "none"
  /\ revnum = 0
  /\ option \in Options
  /\ events = <<>>
  /\ db_config \in IF env.isdir THEN Files \cup {Absent} ELSE {Absent}
  /\ NoVerify

NextLife == Check \/ Setup \/ Cleanup

SpecLife == InitLife /\ [][NextLife]_vars

\* A whole run of the output option: setup(), then the process_* calls of
\* the commits, then cleanup().  The commits of a run, one of each kind
\* and a post-commit that raises.
RunCommits(rev) ==
  {SvnCommit("initial", rev, <<>>, 0, Projects(<<TRUE>>)),
   SvnCommit("primary", rev, CvsRevs(<<"Add">>), 0, <<>>),
   SvnCommit("branch", rev, <<>>, 0, <<>>),
   SvnCommit("tag", rev, <<>>, 0, <<>>)}
    \cup {SvnCommit("post", rev, CvsRevs(<<type>>), rev - 1, <<>>) :
            type \in IF rev > 1 THEN {"Change", "Other"} ELSE {}}

\* The process_* method the output pass calls for a commit.
process(svn_commit) ==
  CASE svn_commit.kind = "initial" -> process_initial_project_commit(svn_commit)
    [] svn_commit.kind = "primary" -> process_primary_commit(svn_commit)
    [] svn_commit.kind = "post" -> process_post_commit(svn_commit)
    [] svn_commit.kind = "branch" -> process_branch_commit(svn_commit)
    [] OTHER -> process_tag_commit(svn_commit)

\* A process_* call between setup() and cleanup(): the calls it makes on
\* the mirror join the events of the option.
RunCommit ==
  /\ option.phase = "setup"
  /\ Running
  /\ \E svn_commit \in RunCommits(revnum + 1) :
       LET outcome == process(svn_commit)
       IN /\ log' = outcome.calls
          /\ open' = OpenAfter(open, outcome.calls)
          /\ raised' = outcome.raised
          /\ last' = svn_commit
          /\ revnum' = svn_commit.revnum
          /\ events' = events \o [i \in 1..Len(outcome.calls) |->
                                    Event("repos." \o outcome.calls[i].op, <<>>)]
  /\ UNCHANGED <<ctx, optVars, option, db_config, verVars>>

\* The option is set up over a target that does not exist yet.
InitRun ==
  /\ InitLife
  /\ ~env.exists
  /\ db_config = Absent

NextRun == Setup \/ RunCommit \/ Cleanup

SpecRun == InitRun /\ [][NextRun]_vars

\* The options that accompany --help: ones that end the loop, ones that
\* conflict, ones that are in order.
HelpOptions ==
  {Flag("--help"), Flag("-h"), Flag("--help-passes"), Flag("--version"),
   Option("-p", <<"3", "1">>), Option("-p", Str("1")),
   Option("--symbol-default", Str("none")), Flag("--dump-only"),
   Option("-s", Str("repo")), Flag("-q"), Flag("-v")}

HelpStep ==
  \E o \in HelpOptions :
    /\ o.opt = "-q" => loc.quiet < MaxCount
    /\ o.opt = "-v" => loc.verbose < MaxCount
    /\ o.opt \in OrderSensitive => Len(seen) < MaxPassOptions
    /\ ProcessOption(o)

NextHelp == HelpStep \/ FlagFinish

SpecHelp == InitOptions /\ [][NextHelp]_vars

\* The converter is not run.
NoConversion ==
  /\ ctx = CtxDefaults
  /\ run = RunDefaults
  /\ loc = Locals
  /\ pc = "opts"
  /\ result = NoResult
  /\ seen = <<>>
  /\ env = NoEnv
  /\ svnadmin_runs = 0
  /\ printed = <<>>
  /\ log_level = "NORMAL"
  /\ option_check = NotChecked
  /\ open = 0
  /\ log = <<>>
  /\ last = NoCommit
  /\ raised = "none"
  /\ revnum = 0
  /\ NoLifecycle

\* The files file_compare is tried on: every st_mode of Modes (0644, 0744,
\* 0444, 0660, 0645) with every content of up to MaxData bytes.
MaxData == 3

Modes == {420, 484, 292, 432, 421}

CompareFiles == {RegularFile(m, d) : m \in Modes, d \in SeqsUpTo({0, 1}, MaxData)}

\* The trees tree_compare is tried on: nothing, a file, or a directory of
\* up to two entries, each a file or a directory of at most one file.
Leaves == {RegularFile(420, <<1>>), RegularFile(420, <<2>>), RegularFile(484, <<1>>)}

DirectoriesOf(names, nodes) ==
  {Directory(e) : e \in UNION {[S -> nodes] : S \in SUBSET names}}

SubDirectories == DirectoriesOf({"a"}, Leaves)

Roots == {NoPath} \cup Leaves \cup DirectoriesOf({"a", "b"}, Leaves \cup SubDirectories)

InitCompare ==
  /\ NoConversion
  /\ \E p \in (CompareFiles \X CompareFiles) \cup (Roots \X Roots) :
       tree1 = p[1] /\ tree2 = p[2]
  /\ failures = NoFailures
  /\ ret = NotCalled
  /\ symbol = NoSymbol
  /\ vrun = NoRun

compareFrame == <<ctx, optVars, outVars, lifeVars, tree1, tree2, symbol, vrun>>

FileCompare ==
  /\ ~ret.called
  /\ tree1.type = "file" /\ tree2.type = "file"
  /\ failures' = file_compare(failures, tree1, tree2).failures
  /\ ret' = Called("file_compare", file_compare(failures, tree1, tree2).ok)
  /\ UNCHANGED compareFrame

TreeCompare ==
  /\ ~ret.called
  /\ failures' = tree_compare(failures, tree1, tree2).failures
  /\ ret' = Called("tree_compare", tree_compare(failures, tree1, tree2).ok)
  /\ UNCHANGED compareFrame

NextCompare == FileCompare \/ TreeCompare

SpecCompare == InitCompare /\ [][NextCompare]_vars

\* The rules and the names transform_symbol is tried on.
MaxRules == 2
MaxName == 2
MaxTransforms == 2

Rules ==
  {Transform(<<"a">>, <<"b">>), Transform(<<"b">>, <<"a">>),
   Transform(<<"a">>, <<"a", "a">>), Transform(<<"b">>, <<>>),
   Transform(<<"a", "b">>, <<"b">>)}

InitTransform ==
  /\ NoConversion
  /\ tree1 = NoPath
  /\ tree2 = NoPath
  /\ failures = NoFailures
  /\ ret = NotCalled
  /\ \E rules \in SeqsUpTo(Rules, MaxRules), name \in SeqsUpTo({"a", "b"}, MaxName) :
       symbol = [rules |-> rules, names |-> <<name>>]
  /\ vrun = NoRun

\* transform_symbol is applied to the name it gave last.
TransformSymbol ==
  /\ Len(symbol.names) <= MaxTransforms
  /\ symbol' = [symbol EXCEPT
                  !.names = Append(@, transform_symbol(symbol.rules, @[Len(@)]))]
  /\ UNCHANGED <<ctx, optVars, outVars, lifeVars, tree1, tree2, failures, ret, vrun>>

NextTransform == TransformSymbol

SpecTransform == InitTransform /\ [][NextTransform]_vars

\* The command lines and the repositories verify-cvs2svn is run on.
VerifyCommandLines ==
  {VerifyOptions(b, t, k, s, r) :
     b \in {<<>>, <<"a">>}, t \in {<<>>, <<"a">>}, k \in BOOLEAN,
     s \in {<<>>, << <<<<"a">>, <<"b">>>> >>}, r \in {"svn", "hg", "git"}}

VerifyTrees ==
  {Directory([n \in {"a"} |-> RegularFile(420, <<1>>)]),
   Directory([n \in {"a"} |-> RegularFile(420, <<2>>)]),
   Directory([n \in {"a", "b"} |-> RegularFile(420, <<1>>)])}

InitVerify ==
  /\ NoConversion
  /\ tree1 = NoPath
  /\ tree2 = NoPath
  /\ failures = NoFailures
  /\ ret = NotCalled
  /\ symbol = NoSymbol
  /\ \E o \in VerifyCommandLines, n \in {1, 2} : vrun = Started(o, n)

NextVerify ==
  \/ Main_Parse
  \/ \E opens \in BOOLEAN, tags \in {<<>>, << <<"a">> >>},
        branches \in {<<>>, << <<"b">> >>, << <<"unlabeled-", "1">>, <<"b">> >>} :
       Main_Open(opens, tags, branches)
  \/ \E t1 \in VerifyTrees, t2 \in VerifyTrees, fails \in {"none", "cvs", "verify"},
        partial \in BOOLEAN :
       VerifyContentsSingle(t1, t2, fails, partial)
  \/ Main_Exit

SpecVerify == InitVerify /\ [][NextVerify]_vars

\* verify_contents_single called on its own, once or twice, with a ctx
\* whose skip_cleanup a caller has set or not.
MaxCalls == 2

SingleContexts ==
  {[VerifyOptions(<<>>, <<>>, FALSE, <<>>, r) EXCEPT !.skip_cleanup = k] :
     r \in {"svn", "hg"}, k \in BOOLEAN}

SingleItems == {Item("trunk", <<>>), Item("tag", <<"a">>), Item("branch", <<"b">>)}

InitSingle ==
  /\ NoConversion
  /\ tree1 = NoPath
  /\ tree2 = NoPath
  /\ failures = NoFailures
  /\ ret = NotCalled
  /\ symbol = NoSymbol
  /\ \E o \in SingleContexts, items \in SeqsUpTo(SingleItems, MaxCalls) :
       vrun = [Started(o, 2) EXCEPT !.pc = "verifying", !.todo = items]

NextSingle ==
  \E t1 \in VerifyTrees, t2 \in VerifyTrees, fails \in {"none", "cvs", "verify"},
     partial \in BOOLEAN :
    VerifyContentsSingle(t1, t2, fails, partial)

SpecSingle == InitSingle /\ [][NextSingle]_vars

-----------------------------------------------------------------------------
(* Properties of the output option (checked under SpecOutput).             *)

\* The number of calls of `op' among the first k calls of the log.
CountOp(op, k) == Cardinality({i \in 1..k : log[i].op = op})

\* The commits the mirror had open when the latest process_* call began.
OpenAtEntry ==
  open - CountOp("start_commit", Len(log)) + CountOp("end_commit", Len(log))

\* The commits the mirror has open after the first k calls of the log.
OpenAt(k) == OpenAtEntry + CountOp("start_commit", k) - CountOp("end_commit", k)

\* start_commit only with no commit open, end_commit and every mutation
\* only with exactly one open, and the first call is a start_commit.
CommitsAlternate ==
  /\ OpenAtEntry = 0
  /\ log # <<>> => log[1].op = "start_commit"
  /\ \A i \in 1..Len(log) :
       /\ log[i].op = "start_commit" => OpenAt(i - 1) = 0
       /\ log[i].op = "end_commit" => OpenAt(i - 1) = 1
       /\ log[i].op \in Mutations => OpenAt(i - 1) = 1

\* C1, as claimed: start_commit and end_commit alternate, every mutation is
\* made with exactly one commit open, and no commit is open once a
\* process_* call has finished, whether it returned or raised.
C1_NoCommitLeftOpen ==
  /\ CommitsAlternate
  /\ last.kind # "none" => open = 0

\* C1, amended: start_commit and end_commit alternate, every mutation is
\* made with exactly one commit open, and no commit is open once a
\* process_* call has returned; the only call that raises is a
\* process_post_commit raising InternalError, and it leaves its commit open.
C1_NoCommitLeftOpenOnReturn ==
  /\ CommitsAlternate
  /\ raised = "none" => open = 0
  /\ raised # "none" => raised = "InternalError" /\ last.kind = "post" /\ open = 1

\* C1 witness: a second process_* call has returned after making a mutation.
C1_Witness ==
  /\ revnum = 2
  /\ raised = "none"
  /\ \E i \in 1..Len(log) : log[i].op \in Mutations

\* The index of the first revision of the latest commit that is of no known
\* class (0 if there is none).
FirstOther ==
  LET others == {i \in 1..Len(last.cvs_revs) : last.cvs_revs[i].type = "Other"}
  IN IF others = {} THEN 0 ELSE CHOOSE i \in others : \A j \in others : i <= j

\* The mirror calls of the log that name file f.
CallsOnFile(f) ==
  {i \in 1..Len(log) : log[i].op \in Mutations
                        /\ (log[i].path = <<"lod", f>> \/ log[i].path = <<"trunk", f>>)}

\* C2, as claimed: a primary or post commit holding a revision of no known
\* class ends with InternalError, and no mutation is issued for that revision.
C2_UnknownRevisionAborts ==
  (last.kind \in {"primary", "post"} /\ FirstOther # 0)
    => raised = "InternalError" /\ CallsOnFile(FirstOther) = {}

\* The revisions of the latest commit that are not Noops, in list order.
NonNoop == SelectSeq(last.cvs_revs, LAMBDA cvs_rev : cvs_rev.type # "Noop")

\* The mirror mutation a primary commit is to make for a revision.
IsPrimaryCallOf(call, cvs_rev) ==
  /\ call.path = <<"lod", cvs_rev.file>>
  /\ call.op \in Mutations
  /\ cvs_rev.type = "Delete" => call.op = "delete_path" /\ call.flag = Bool(ctx.prune)
  /\ cvs_rev.type = "Add" => call.op = "add_path"
  /\ cvs_rev.type = "Change" => call.op = "change_path"

\* Between start_commit and end_commit the log holds one mutation per
\* revision of `revs', in order.
PrimaryCallsAre(revs) ==
  /\ raised = "none"
  /\ Len(log) = Len(revs) + 2
  /\ log[1] = start_commit(last.revnum)
  /\ log[Len(log)] = end_commit
  /\ \A k \in 1..Len(revs) : IsPrimaryCallOf(log[k + 1], revs[k])

\* C21, as claimed: process_primary_commit issues exactly one mirror
\* mutation per non-Noop revision, in the order of svn_commit.cvs_revs:
\* delete_path with the prune setting for a Delete, add_path for an Add,
\* change_path for a Change, nothing for a Noop; the number of mutations
\* between start_commit and end_commit is the number of non-Noop revisions.
C21_OneMutationPerNonNoop == last.kind = "primary" => PrimaryCallsAre(NonNoop)

\* The same for the commits whose revisions are all of a known class.
PrimaryCallsOfKnown ==
  (last.kind = "primary" /\ FirstOther = 0) => PrimaryCallsAre(NonNoop)

\* The number of mirror calls process_post_commit makes for a revision.
PostWidth(type) ==
  CASE type = "Add" -> 1 [] type = "Change" -> 2 [] type = "Delete" -> 1 [] OTHER -> 0

\* The revisions of the latest post-commit that the loop handled.
PostHandled == IF FirstOther = 0 THEN Len(last.cvs_revs) ELSE FirstOther - 1

RECURSIVE PostWidthUpTo(_)
PostWidthUpTo(i) ==
  IF i = 0 THEN 0 ELSE PostWidthUpTo(i - 1) + PostWidth(last.cvs_revs[i].type)

IsCopyOf(call, cvs_rev) ==
  /\ call.op = "copy_path"
  /\ call.src = <<"lod", cvs_rev.file>>
  /\ call.path = <<"trunk", cvs_rev.file>>
  /\ call.rev = last.motivating_revnum
  /\ call.flag = "True"

IsTrunkDeleteOf(call, cvs_rev) ==
  call.op = "delete_path" /\ call.path = <<"trunk", cvs_rev.file>>

\* C3: process_post_commit emits, between start_commit and end_commit and in
\* list order, a copy for an Add, a delete followed at once by the copy for
\* a Change, a delete for a Delete and nothing for a Noop; every copy is
\* from the motivating revnum with enforce_empty_dst = True.
C3_PostCommitCalls ==
  last.kind = "post" =>
    /\ log[1] = start_commit(last.revnum)
    /\ Len(log) = 1 + PostWidthUpTo(PostHandled) + (IF FirstOther = 0 THEN 1 ELSE 0)
    /\ FirstOther = 0 => log[Len(log)] = end_commit
    /\ \A i \in 1..PostHandled :
         LET cvs_rev == last.cvs_revs[i]
             at == 1 + PostWidthUpTo(i - 1)
         IN CASE cvs_rev.type = "Add" -> IsCopyOf(log[at + 1], cvs_rev)
              [] cvs_rev.type = "Change" ->
                   IsTrunkDeleteOf(log[at + 1], cvs_rev) /\ IsCopyOf(log[at + 2], cvs_rev)
              [] cvs_rev.type = "Delete" -> IsTrunkDeleteOf(log[at + 1], cvs_rev)
              [] OTHER -> TRUE
    /\ \A k \in 1..Len(log) :
         log[k].op = "copy_path" => log[k].rev = last.motivating_revnum /\ log[k].flag = "True"

\* C3 witness: a post-commit of a Change followed by an Add has returned.
C3_Witness ==
  /\ last.kind = "post"
  /\ raised = "none"
  /\ Len(last.cvs_revs) = 2
  /\ last.cvs_revs[1].type = "Change"
  /\ last.cvs_revs[2].type = "Add"
  /\ Len(log) = 5

\* The number of directories process_initial_project_commit makes for a project.
InitialWidth(project) ==
  (IF project.trunk_path = <<>> THEN 0 ELSE 1) + (IF ctx.trunk_only THEN 0 ELSE 2)

RECURSIVE InitialWidthUpTo(_)
InitialWidthUpTo(i) ==
  IF i = 0 THEN 0 ELSE InitialWidthUpTo(i - 1) + InitialWidth(last.projects[i])

\* C4: process_initial_project_commit makes one commit with the commit's
\* revnum and in it, project by project, trunk (unless its path is empty),
\* then branches and tags (unless the conversion is trunk-only).
C4_InitialProjectDirs ==
  last.kind = "initial" =>
    /\ raised = "none"
    /\ log[1] = start_commit(last.revnum)
    /\ log[Len(log)] = end_commit
    /\ Len(log) = 2 + InitialWidthUpTo(Len(last.projects))
    /\ \A k \in 2..(Len(log) - 1) : log[k].op = "mkdir"
    /\ \A i \in 1..Len(last.projects) :
         LET project == last.projects[i]
             at == 1 + InitialWidthUpTo(i - 1)
             t == IF project.trunk_path = <<>> THEN 0 ELSE 1
         IN /\ t = 1 => log[at + 1].path = project.trunk_path
            /\ ~ctx.trunk_only => /\ log[at + t + 1].path = project.branches_path
                              /\ log[at + t + 2].path = project.tags_path

\* C4 witness: an initial commit of two projects, the first with an empty
\* trunk path, in a conversion that is not trunk-only.
C4_Witness ==
  /\ last.kind = "initial"
  /\ ~ctx.trunk_only
  /\ Len(last.projects) = 2
  /\ last.projects[1].trunk_path = <<>>
  /\ last.projects[2].trunk_path # <<>>
  /\ Len(log) = 7

-----------------------------------------------------------------------------
(* Properties of the symbol strategy rules (checked under SpecSymbols).    *)

RuleOptions == {"--force-branch", "--force-tag", "--exclude"}

\* The options of `seen' whose name is in `names', in order.
SeenOf(names) == SelectSeq(seen, LAMBDA o : o.opt \in names)

UserRuleClasses ==
  {"ForceBranchRegexpStrategyRule", "ForceTagRegexpStrategyRule",
   "ExcludeRegexpStrategyRule"}

\* The place of a rule class in the order C5 gives.
RuleRank(class) ==
  CASE class \in UserRuleClasses -> 0
    [] class = "UnambiguousUsageRule" -> 1
    [] class = "BranchIfCommitsRule" -> 2
    [] class = "HeuristicStrategyRule" -> 3
    [] OTHER -> 4

RuleClassOf(opt) ==
  CASE opt = "--force-branch" -> "ForceBranchRegexpStrategyRule"
    [] opt = "--force-tag" -> "ForceTagRegexpStrategyRule"
    [] OTHER -> "ExcludeRegexpStrategyRule"

\* C5: the rule list holds the user's regexp rules first, in command-line
\* order, then the unambiguous-usage rule (exactly once when __init__ has
\* returned), then branch-if-commits before heuristic, then the catch-all
\* rule; no user rule comes after the unambiguous-usage rule.
C5_RuleOrder ==
  LET rules == ctx.symbol_strategy
      user == SeenOf(RuleOptions)
  IN /\ Len(rules) >= Len(user)
     /\ \A i \in 1..Len(user) :
          rules[i].class = RuleClassOf(user[i].opt) /\ rules[i].arg = user[i].value
     /\ \A i \in 1..Len(rules), j \in 1..Len(rules) :
          i < j => /\ RuleRank(rules[i].class) <= RuleRank(rules[j].class)
                   /\ rules[i].class = "UnambiguousUsageRule"
                        => rules[j].class \notin UserRuleClasses
     /\ pc = "returned" =>
          /\ Len(rules) > Len(user)
          /\ rules[Len(user) + 1].class = "UnambiguousUsageRule"
          /\ Cardinality({i \in 1..Len(rules) :
                            rules[i].class = "UnambiguousUsageRule"}) = 1

\* C5 witness: two user rules, then --symbol-default=heuristic; __init__ has
\* returned with five rules.
C5_Witness ==
  /\ pc = "returned"
  /\ Len(SeenOf(RuleOptions)) = 2
  /\ seen[1].opt = "--force-tag"
  /\ seen[2].opt = "--force-branch"
  /\ Len(ctx.symbol_strategy) = 5
  /\ ctx.symbol_strategy[5].class = "HeuristicStrategyRule"

\* The value of the last --symbol-default given, 'strict' if none was.
LastSymbolDefault ==
  LET given == SeenOf({"--symbol-default"})
  IN IF given = <<>> THEN Str("strict") ELSE given[Len(given)].value

\* The classes of the rules that follow the unambiguous-usage rule.
FallbackRules ==
  LET rules == ctx.symbol_strategy
      n == Len(SeenOf(RuleOptions)) + 1
  IN [i \in 1..(Len(rules) - n) |-> rules[n + i].class]

\* C6: the last --symbol-default given decides the rules after the
\* unambiguous-usage rule: none for 'strict' (and when the option is
\* absent), all-branch for 'branch', all-tag for 'tag', branch-if-commits
\* then heuristic for 'heuristic'; any other value raises FatalError.
C6_SymbolDefault ==
  /\ pc = "returned" =>
       /\ LastSymbolDefault = Str("strict") => FallbackRules = <<>>
       /\ LastSymbolDefault = Str("branch") => FallbackRules = <<"AllBranchRule">>
       /\ LastSymbolDefault = Str("tag") => FallbackRules = <<"AllTagRule">>
       /\ LastSymbolDefault = Str("heuristic")
            => FallbackRules = <<"BranchIfCommitsRule", "HeuristicStrategyRule">>
       /\ LastSymbolDefault \in
            {Str("strict"), Str("branch"), Str("tag"), Str("heuristic")}
  /\ \A i \in 1..Len(seen) :
       (seen[i].opt = "--symbol-default"
          /\ seen[i].value \notin {Str("strict"), Str("branch"), Str("tag"), Str("heuristic")})
         => pc = "raised" /\ result.exc = "FatalError" /\ i = Len(seen)

\* C6 witness: --symbol-default given twice, 'branch' and then 'heuristic',
\* and __init__ has returned.
C6_Witness ==
  /\ pc = "returned"
  /\ Len(SeenOf({"--symbol-default"})) = 2
  /\ SeenOf({"--symbol-default"})[1].value = Str("branch")
  /\ LastSymbolDefault = Str("heuristic")
  /\ FallbackRules = <<"BranchIfCommitsRule", "HeuristicStrategyRule">>

-----------------------------------------------------------------------------
(* Properties of the consistency checks (checked under SpecFlags).         *)

\* __init__ got as far as the consistency checks: no --help, one argument.
ReachedChecks == pc # "opts" /\ ~loc.print_help /\ env.nargs = 1

\* The conflicting and incomplete combinations of C7, where an option with
\* a value counts as given if s(value) holds.
Conflicting(s(_)) ==
  \/ ~s(ctx.target) /\ ~ctx.dump_only /\ ~ctx.dry_run
  \/ s(ctx.target) /\ ctx.dump_only
  \/ ctx.dump_only /\ ctx.existing_svnrepos
  \/ ctx.bdb_txn_nosync /\ ctx.existing_svnrepos
  \/ ctx.dump_only /\ ctx.bdb_txn_nosync
  \/ loc.quiet > 0 /\ loc.verbose > 0
  \/ s(ctx.fs_type) /\ ctx.existing_svnrepos
  \/ ctx.bdb_txn_nosync /\ s(ctx.fs_type) /\ ctx.fs_type # Str("bdb")

Given(v) == v # None
GivenNonEmpty(v) == v # None /\ v # Str("")

\* The checks failed: FatalError, and no project was added to the context.
FailedChecks == pc = "raised" /\ result.exc = "FatalError" /\ ctx.projects = <<>>

\* The checks passed: the default project was added.
PassedChecks == Len(ctx.projects) = 1

ChecksDecideBy(s(_)) ==
  ReachedChecks => /\ Conflicting(s) => FailedChecks
                   /\ ~Conflicting(s) => PassedChecks

\* C7, as claimed: once the consistency checks are reached, every
\* conflicting or incomplete combination fails with FatalError before the
\* default project is added, and every other combination passes, where -s
\* and --fs-type count as given whenever they are on the command line.
C7_ConflictsFatal == ChecksDecideBy(Given)

\* C7, amended: the same, where -s and --fs-type count as given only with
\* a non-empty value.
C7_ConflictsFatalNonEmpty == ChecksDecideBy(GivenNonEmpty)

\* C7 witness: -s, -q and -v were given and the checks raised FatalError.
C7_Witness ==
  /\ ReachedChecks
  /\ ctx.target = Str("repo")
  /\ loc.quiet > 0 /\ loc.verbose > 0
  /\ ~ctx.dump_only /\ ~ctx.existing_svnrepos /\ ~ctx.bdb_txn_nosync
  /\ FailedChecks

\* The conversion is to a new repository at a path given with -s.
NewRepository ==
  Given(ctx.target) /\ ~ctx.existing_svnrepos /\ ~ctx.dump_only

ExistsError ==
  pc = "raised" /\ result.exc = "FatalError" /\ result.msg = "the svn-repos-path exists."

\* C8: for a new repository whose path exists, __init__ raises FatalError
\* before any svnadmin command and any mirror operation, unless --dry-run
\* was given; NewRepositoryOutputOption.check raises FatalError for exactly
\* the combinations for which __init__ does.
C8_TargetExistsFatal ==
  /\ (ReachedChecks /\ PassedChecks /\ NewRepository) =>
       /\ ExistsError <=> (~ctx.dry_run /\ env.exists)
       /\ option_check.called =>
            /\ (option_check.result.exc = "FatalError") <=> (result.exc = "FatalError")
            /\ env.svnadmin_ok =>
                 (option_check.result.msg = "the svn-repos-path exists.") <=> ExistsError
  /\ ExistsError => NewRepository /\ svnadmin_runs = 0 /\ log = <<>> /\ open = 0
  /\ ctx.dry_run => ~ExistsError /\ option_check.result.exc # "FatalError"

\* C8 witness: the path of a new repository exists, __init__ has raised the
\* FatalError and so has the check of the output option.
C8_Witness ==
  /\ NewRepository
  /\ env.exists
  /\ ExistsError
  /\ option_check.called
  /\ option_check.result.msg = "the svn-repos-path exists."

-----------------------------------------------------------------------------
(* Properties of the pass range (checked under SpecPasses).                *)

\* The number a START or END of a range stands for: `empty' for '', 0 for
\* what is no pass.
PassOf(name, empty) ==
  CASE name = "" -> empty
    [] name = "1" -> 1
    [] name = "2" -> 2
    [] name = "3" -> 3
    [] OTHER -> 0

\* The range a '-p' value asks for.
RangeOf(value) ==
  IF Len(value) = 1 THEN <<PassOf(value[1], 0), PassOf(value[1], 0)>>
  ELSE <<PassOf(value[1], 1), PassOf(value[2], NumPasses)>>

\* C9: when option processing succeeds start_pass <= end_pass; with no -p
\* the range is 1..num_passes, otherwise it is the range of the last -p
\* (PASS..PASS, or START..END with an empty START meaning 1 and an empty END
\* num_passes); a range whose start is after its end raises
\* InvalidPassError.
C9_PassRange ==
  LET given == SeenOf({"-p"})
  IN /\ pc = "returned" => run.start_pass <= run.end_pass
     /\ pc \in {"opts", "returned"} =>
          /\ 1 <= run.start_pass /\ run.start_pass <= run.end_pass
          /\ run.end_pass <= NumPasses
          /\ given = <<>> => run.start_pass = 1 /\ run.end_pass = NumPasses
          /\ given # <<>> =>
               <<run.start_pass, run.end_pass>> = RangeOf(given[Len(given)].value)
     /\ \A i \in 1..Len(given) :
          (Len(given[i].value) <= 2
             /\ RangeOf(given[i].value)[1] > RangeOf(given[i].value)[2]
             /\ RangeOf(given[i].value)[2] # 0)
            => pc = "raised" /\ result.exc = "InvalidPassError" /\ i = Len(given)

\* C9 witness: '-p 3' and then '-p :2' were given and __init__ has returned
\* with the range 1..2.
C9_Witness ==
  /\ pc = "returned"
  /\ Len(seen) = 2
  /\ seen[1].value = Str("3")
  /\ seen[2].value = <<"", "2">>
  /\ run.start_pass = 1
  /\ run.end_pass = 2

-----------------------------------------------------------------------------
(* Properties of the encoding list (checked under SpecEncodings).          *)

\* C10: the encoding list is the encodings given with --encoding, in the
\* order given, followed by 'ascii'.
C10_EncodingOrder ==
  LET given == SeenOf({"--encoding"})
  IN /\ Len(ctx.encoding) = Len(given) + 1
     /\ \A i \in 1..Len(given) : ctx.encoding[i] = given[i].value
     /\ ctx.encoding[Len(ctx.encoding)] = Str("ascii")

\* C10 witness: --encoding=utf8 and then --encoding=latin1 were given and
\* __init__ has returned.
C10_Witness ==
  /\ pc = "returned"
  /\ Len(seen) = 2
  /\ ctx.encoding = <<Str("utf8"), Str("latin1"), Str("ascii")>>

-----------------------------------------------------------------------------
(* Properties of the property setters (checked under SpecSetters).         *)

\* The place of a setter class in the order C11 gives; 0 for the setter of
\* --cvs-revnums, which the loop registers.
SetterRank(class) ==
  CASE class = "ExecutablePropertySetter" -> 1
    [] class = "BinaryFileEOLStyleSetter" -> 2
    [] class = "MimeMapper" -> 3
    [] class = "AutoPropsPropertySetter" -> 4
    [] class = "BinaryFileDefaultMimeTypeSetter" -> 5
    [] class = "EOLStyleFromMimeTypeSetter" -> 6
    [] class = "DefaultEOLStyleSetter" -> 7
    [] class = "KeywordsPropertySetter" -> 8
    [] OTHER -> 0

\* The setters of the class registered.
SettersOf(class) ==
  SelectSeq(ctx.svn_property_setters, LAMBDA s : s.class = class)

\* C11: when __init__ has returned the setters are registered in the order
\* executable, binary eol-style, mime mapper (only with --mime-types),
\* auto-props (only with --auto-props), binary default mime type, eol-style
\* from mime type (only with --eol-from-mime-type), default eol-style (one:
\* 'native', or None with --no-default-eol), keywords (absent with
\* --keywords-off), each at most once, whatever the order of the options.
C11_SetterOrder ==
  LET setters == ctx.svn_property_setters
  IN /\ pc = "opts" => \A i \in 1..Len(setters) : SetterRank(setters[i].class) = 0
     /\ pc = "returned" =>
          /\ \A i \in 1..Len(setters), j \in 1..Len(setters) :
               i < j => \/ SetterRank(setters[i].class) < SetterRank(setters[j].class)
                        \/ SetterRank(setters[j].class) = 0
          /\ Len(SettersOf("ExecutablePropertySetter")) = 1
          /\ Len(SettersOf("BinaryFileEOLStyleSetter")) = 1
          /\ Len(SettersOf("BinaryFileDefaultMimeTypeSetter")) = 1
          /\ SettersOf("MimeMapper") # <<>> => loc.mime_types_file # None
          /\ loc.mime_types_file = Str("mime.types") =>
               SettersOf("MimeMapper") = <<Setter("MimeMapper", Str("mime.types"), FALSE)>>
          /\ SettersOf("AutoPropsPropertySetter") # <<>> => loc.auto_props_file # None
          /\ loc.auto_props_file = Str("props") =>
               SettersOf("AutoPropsPropertySetter") =
                 <<Setter("AutoPropsPropertySetter", Str("props"),
                          loc.auto_props_ignore_case)>>
          /\ SettersOf("EOLStyleFromMimeTypeSetter") # <<>> <=> loc.eol_from_mime_type
          /\ SettersOf("DefaultEOLStyleSetter") =
               <<Setter("DefaultEOLStyleSetter",
                        IF loc.no_default_eol THEN None ELSE Str("native"), FALSE)>>
          /\ SettersOf("KeywordsPropertySetter") # <<>> <=> ~loc.keywords_off

\* C11 witness: --cvs-revnums, --mime-types, --auto-props and
\* --eol-from-mime-type were given and __init__ has returned with nine
\* setters, the keywords setter last.
C11_Witness ==
  /\ pc = "returned"
  /\ Len(ctx.svn_property_setters) = 9
  /\ ctx.svn_property_setters[1].class = "CVSRevisionNumberSetter"
  /\ ctx.svn_property_setters[4].class = "MimeMapper"
  /\ ctx.svn_property_setters[5].class = "AutoPropsPropertySetter"
  /\ ctx.svn_property_setters[9].class = "KeywordsPropertySetter"

-----------------------------------------------------------------------------
(* Properties of the life of an output option (checked under SpecLife).    *)

IsNew == option.class = "NewRepositoryOutputOption"

\* The step is a call of cleanup() of a NewRepositoryOutputOption.
NewCleanupStep == IsNew /\ option.phase = "setup" /\ option'.phase # "setup"

\* DB_CONFIG after the step is DB_CONFIG before it with its first no_sync
\* line, if it has one, commented out.
FirstNoSyncCommented ==
  /\ db_config'.exists
  /\ Len(db_config'.lines) = Len(db_config.lines)
  /\ \A i \in 1..Len(db_config.lines) :
       db_config'.lines[i] =
         IF i = Index(db_config.lines, no_sync) THEN "# " \o no_sync
         ELSE db_config.lines[i]

\* C12: cleanup() of a NewRepositoryOutputOption, not in a dry run, without
\* bdb_txn_nosync and with an existing DB_CONFIG, comments the no_sync line
\* out, leaves every other line as and where it was, and returns without an
\* error; otherwise it leaves the file untouched.
C12_CleanupRewritesConfig ==
  [][NewCleanupStep =>
       IF ~ctx.dry_run /\ ~option.bdb_txn_nosync /\ db_config.exists
         THEN FirstNoSyncCommented /\ option'.exc = "none"
         ELSE db_config' = db_config]_vars

\* The run_command events, and the first position of an event in `events'
\* (0 if there is none).
Commands == SelectSeq(events, LAMBDA ev : ev.op = "run_command")

RECURSIVE PositionFrom(_, _)
PositionFrom(P(_), i) ==
  IF i > Len(events) THEN 0
  ELSE IF P(events[i]) THEN i
  ELSE PositionFrom(P, i + 1)

Position(P(_)) == PositionFrom(P, 1)

Has(args, word) == \E i \in 1..Len(args) : args[i] = word

\* setup() of a NewRepositoryOutputOption was called.
NewSetupCalled == IsNew /\ (option.phase \in {"setup", "cleaned"} \/ Commands # <<>>)

\* setup() creates the repository as C13 says, where --bdb-txn-nosync is on
\* the command line of svnadmin create if and only if nosync holds.
CreatesOnce(nosync) ==
  NewSetupCalled =>
    IF ctx.dry_run THEN Commands = <<>>
    ELSE /\ Len(Commands) = 1
         /\ Commands[1].args[1] = "svnadmin" /\ Commands[1].args[2] = "create"
         /\ \/ Position(LAMBDA ev : ev.op = "run_command")
                 < Position(LAMBDA ev : ev.op \in {"repos.open", "repos.add_delegate"})
            \/ /\ option.exc = "FatalError"
               /\ Position(LAMBDA ev : ev.op \in {"repos.open", "repos.add_delegate"}) = 0
         /\ IF Truthy(option.fs_type)
              THEN Has(Commands[1].args, "--fs-type=" \o option.fs_type[1])
              ELSE \A t \in {"", "bdb", "fsfs"} :
                     ~Has(Commands[1].args, "--fs-type=" \o t)
         /\ Has(Commands[1].args, "--bdb-txn-nosync") <=> nosync

\* C13, as claimed: not in a dry run, setup() runs svnadmin create once,
\* before the mirror is opened and the repository delegate registered,
\* with --fs-type=TYPE iff a type was given and with --bdb-txn-nosync iff
\* the option was constructed with bdb_txn_nosync.
C13_CreateAsRequested == CreatesOnce(option.bdb_txn_nosync)

\* C13, amended: the same, with --bdb-txn-nosync iff no type was given or
\* the type is bdb, whatever bdb_txn_nosync is.
C13_CreateNoSyncUnlessOtherType ==
  CreatesOnce(~Truthy(option.fs_type) \/ option.fs_type = Str("bdb"))

\* C13 witness: setup() of a new bdb repository constructed without
\* bdb_txn_nosync has returned, and svnadmin create got --bdb-txn-nosync.
C13_Witness ==
  /\ IsNew /\ option.phase = "setup" /\ ~ctx.dry_run
  /\ option.fs_type = Str("bdb") /\ ~option.bdb_txn_nosync
  /\ Commands =
       <<Event("run_command",
               <<"svnadmin", "create", "--fs-type=bdb", "--bdb-txn-nosync", "repo">>)>>
  /\ Len(events) = 5

\* In a dry run nothing was run, registered for output or opened.
DryRunQuiet ==
  ctx.dry_run =>
    /\ \A i \in 1..Len(events) :
         /\ events[i].op \notin {"run_command", "check_command_runs", "open"}
         /\ events[i].op = "repos.add_delegate" => events[i].args = <<"StdoutDelegate">>
    /\ option_check.svnadmin_runs = 0
    /\ option.phase \in {"setup", "cleaned"} =>
         Cardinality({i \in 1..Len(events) : events[i].op = "repos.add_delegate"}) = 1

\* C18: in a dry run setup() of every output option registers the
\* StdoutDelegate and no other delegate, setup() and check() run no svnadmin
\* command, and no step changes DB_CONFIG.
C18_DryRunChangesNothing ==
  [](DryRunQuiet) /\ [][ctx.dry_run => db_config' = db_config]_vars

\* C18 witness: a dry run of a new repository over a directory whose
\* DB_CONFIG has the no_sync line; check(), setup() and cleanup() were
\* called and the line is still there.
C18_Witness ==
  /\ ctx.dry_run
  /\ IsNew /\ ~option.bdb_txn_nosync
  /\ option.phase = "cleaned"
  /\ option_check.called
  /\ Index(db_config.lines, no_sync) = 1
  /\ Len(events) = 5

-----------------------------------------------------------------------------
(* Properties of a whole run of the output option (checked under SpecRun). *)

\* The positions in `events' of the calls of op, and of the registrations
\* of a delegate of the class `name'.
At(op) == {i \in 1..Len(events) : events[i].op = op}

Registered(name) == {i \in At("repos.add_delegate") : events[i].args[1] = name}

Before(S, T) == \A i \in S, j \in T : i < j

Once(S) == Cardinality(S) = 1

\* setup() has returned; cleanup() was called.
SetupReturned == option.phase \in {"setup", "cleaned"} \/ option.exc = "ValueError"

CleanupCalled == option.phase = "cleaned" \/ option.exc = "ValueError"

\* The delegate the class of the option writes its output through.
OutputDelegate ==
  IF option.class = "DumpfileOutputOption" THEN "DumpfileDelegate" ELSE "RepositoryDelegate"

\* C22: over a run setup -> process_* -> cleanup of any SVN output option,
\* setup opens the mirror, then calls revision_reader.start(), then
\* registers the StdoutDelegate before the dumpfile or repository delegate;
\* cleanup closes the mirror and then calls revision_reader.finish();
\* start() and finish() are each called once, start() before the first
\* commit and finish() after the last, and every delegate is registered
\* before the first start_commit.
C22_RunOrder ==
  /\ SetupReturned =>
       /\ Once(At("repos.open")) /\ Once(At("revision_reader.start"))
       /\ Once(Registered("StdoutDelegate"))
       /\ Before(At("repos.open"), At("revision_reader.start"))
       /\ Before(At("revision_reader.start"), Registered("StdoutDelegate"))
       /\ Before(Registered("StdoutDelegate"), Registered(OutputDelegate))
       /\ At("repos.add_delegate") = Registered("StdoutDelegate") \cup Registered(OutputDelegate)
       /\ ~ctx.dry_run => Once(Registered(OutputDelegate))
  /\ CleanupCalled =>
       /\ Once(At("repos.close")) /\ Once(At("revision_reader.finish"))
       /\ Before(At("repos.close"), At("revision_reader.finish"))
       /\ Before(At("repos.start_commit") \cup At("repos.end_commit"), At("repos.close"))
  /\ ~CleanupCalled => At("repos.close") \cup At("revision_reader.finish") = {}
  /\ Before(At("revision_reader.start"), At("repos.start_commit"))
  /\ Before(At("repos.add_delegate"), At("repos.start_commit"))
  /\ At("repos.start_commit") # {} => Once(At("revision_reader.start"))
  /\ Cardinality(At("repos.start_commit")) = revnum

\* C22 witness: a run into a new repository that processed two commits and
\* was cleaned up.
C22_Witness ==
  /\ option.phase = "cleaned"
  /\ IsNew /\ ~ctx.dry_run
  /\ revnum = 2
  /\ Once(Registered("RepositoryDelegate"))
  /\ Once(At("revision_reader.finish"))

-----------------------------------------------------------------------------
(* Properties of verify-cvs2svn (checked under SpecVerify, SpecTransform   *)
(* and SpecCompare).                                                       *)

\* The verification completed cleanly: main's try statement ended without
\* an exception and no anomaly was reported.
CompletedCleanly == vrun.error = "none" /\ failures.reports = <<>>

\* C14: verify-cvs2svn exits with a non-zero status exactly when the
\* verification did not complete cleanly, which is exactly when an anomaly
\* was counted; the count is the number of report() calls, never decreases,
\* and a report does not end the run.
C14_ExitStatus ==
  /\ [](vrun.pc = "exited" /\ vrun.nargs = 2 =>
          /\ vrun.status # 0 <=> ~CompletedCleanly
          /\ ~CompletedCleanly <=> failures.count > 0)
  /\ [](failures.count = Len(failures.reports))
  /\ [][vrun.pc # "start" => failures'.count >= failures.count]_vars
  /\ [][failures'.count > failures.count => vrun'.pc = "verifying"]_vars

\* C15, as claimed: the name transform_symbol gives is left unchanged by a
\* second application of the same rules.
C15_Idempotent ==
  Len(symbol.names) >= 3 => symbol.names[3] = symbol.names[2]

\* A pattern of the rules occurs in the name.
Matches(rules, name) ==
  \E r \in 1..Len(rules), i \in 1..Len(name) :
    /\ i + Len(rules[r].pattern) - 1 <= Len(name)
    /\ SubSeq(name, i, i + Len(rules[r].pattern) - 1) = rules[r].pattern

\* C15, amended: every rule is applied once, in order, to what the rules
\* before it gave; a second application changes nothing if no pattern
\* occurs in the transformed name.
C15_SequentialOnce ==
  LET rules == symbol.rules
      names == symbol.names
  IN \A k \in 1..(Len(names) - 1) :
       /\ rules = <<>> => names[k + 1] = names[k]
       /\ Len(rules) = 1 =>
            names[k + 1] = Sub(rules[1].pattern, rules[1].replacement, names[k])
       /\ Len(rules) = 2 =>
            names[k + 1] = Sub(rules[2].pattern, rules[2].replacement,
                               Sub(rules[1].pattern, rules[1].replacement, names[k]))
       /\ ~Matches(rules, names[k]) => names[k + 1] = names[k]

\* C15 witness: the rules b -> a, a -> b applied twice to "ab" gave "bb" and
\* then "bb" again.
C15_Witness ==
  /\ symbol.rules = <<Transform(<<"b">>, <<"a">>), Transform(<<"a">>, <<"b">>)>>
  /\ symbol.names = << <<"a", "b">>, <<"b", "b">>, <<"b", "b">> >>

\* The bits of a mode among mask's.
BitsOf(mode, mask) == {b \in mask : (mode \div b) % 2 = 1}

OwnerAll == {256, 128, 64}
OwnerExecute == {64}

\* file_compare returns true iff the bytes are the same and the modes agree
\* on the bits of mask, and it reports a mode anomaly iff they do not.
FileCompareBy(mask) ==
  (ret.called /\ ret.function = "file_compare") =>
    /\ ret.ok <=> /\ tree1.data = tree2.data
                  /\ BitsOf(tree1.mode, mask) = BitsOf(tree2.mode, mask)
    /\ (\E i \in 1..Len(failures.reports) : failures.reports[i] = "File modes differ")
         <=> BitsOf(tree1.mode, mask) # BitsOf(tree2.mode, mask)
    /\ ret.ok <=> failures.count = 0

\* C16, as claimed: file_compare returns true iff the two files have the
\* same bytes and the same owner-executable bit; no other mode bit counts.
C16_FileCompareExecutableBit == FileCompareBy(OwnerExecute)

\* C16, amended: file_compare returns true iff the two files have the same
\* bytes and the same owner bits (read, write and execute, mask 0700); the
\* group's and the others' bits do not count.
C16_FileCompareOwnerBits == FileCompareBy(OwnerAll)

\* C16 witness: two files of three bytes that differ in the last byte, and
\* in the others' bits only (0644 and 0645), were compared: false, with one
\* anomaly and none for the mode.
C16_Witness ==
  /\ ret = Called("file_compare", FALSE)
  /\ tree1 = RegularFile(420, <<0, 1, 0>>)
  /\ tree2 = RegularFile(421, <<0, 1, 1>>)
  /\ failures.reports = <<"File contents differ">>

\* The two trees are identical: the same names at every level, the same
\* type for every entry, every pair of files equal in bytes and owner bits.
RECURSIVE Identical(_, _)
Identical(t1, t2) ==
  /\ t1.type = t2.type
  /\ t1.type = "file" =>
       t1.data = t2.data /\ BitsOf(t1.mode, OwnerAll) = BitsOf(t2.mode, OwnerAll)
  /\ t1.type = "dir" =>
       /\ DOMAIN t1.entries = DOMAIN t2.entries
       /\ \A n \in DOMAIN t1.entries : Identical(t1.entries[n], t2.entries[n])

\* C17: tree_compare returns true iff the two trees are identical, and iff
\* it reported no anomaly.
C17_TreeCompare ==
  (ret.called /\ ret.function = "tree_compare" /\ tree1.type = "dir" /\ tree2.type = "dir") =>
    /\ ret.ok <=> Identical(tree1, tree2)
    /\ ret.ok <=> failures.count = 0

\* The export directories of an item.
CvsExportDir(item) == ExportDir("cvs", ItemName(item.kind, item.label))

VrfExportDir(item) == ExportDir(vrun.options.repos_type, ItemName(item.kind, item.label))

\* The latest call of verify_contents_single that ended.
LastCall == vrun.calls[Len(vrun.calls)]

\* C23: whenever verify_contents_single ends with ctx.skip_cleanup false,
\* returning 1, returning 0 or raising, neither the CVS export directory
\* nor the export directory of the repository verified exists; with
\* skip_cleanup true no directory is removed: the CVS export directory of
\* every call exists, and so do both directories of a call that returned.
C23_ExportDirsRemoved ==
  /\ [](vrun.calls # <<>> /\ ~vrun.options.skip_cleanup =>
          /\ CvsExportDir(LastCall.item) \notin vrun.dirs
          /\ VrfExportDir(LastCall.item) \notin vrun.dirs)
  /\ [](vrun.options.skip_cleanup =>
          \A k \in 1..Len(vrun.calls) :
            /\ CvsExportDir(vrun.calls[k].item) \in vrun.dirs
            /\ vrun.calls[k].value >= 0 => VrfExportDir(vrun.calls[k].item) \in vrun.dirs)
  /\ [][vrun.options.skip_cleanup => vrun.dirs \subseteq vrun'.dirs]_vars

\* C23 witness: without skip_cleanup, a call returned 0 and the next one
\* raised after both of its exports were started; no directory exists.
C23_Witness ==
  /\ ~vrun.options.skip_cleanup
  /\ Len(vrun.calls) = 2
  /\ vrun.calls[1].value = 0
  /\ vrun.calls[2].value = -1
  /\ vrun.error = "RuntimeError"
  /\ Len(vrun.exports) = 4
  /\ vrun.dirs = {}

\* The items verify_contents is to verify, from what the repository lists.
ItemsListed ==
  <<Item("trunk", <<>>)>>
    \o [i \in 1..Len(vrun.listed.tags) |-> Item("tag", vrun.listed.tags[i])]
    \o LET labeled == SelectSeq(vrun.listed.branches, LAMBDA b : b[1] # "unlabeled-")
       IN [i \in 1..Len(labeled) |-> Item("branch", labeled[i])]

\* The summary that lists the items of the calls satisfying P.
SummaryOf(P(_)) ==
  LET listed == SelectSeq(vrun.calls, P)
  IN IF listed = <<>> THEN << <<"No content anomalies detected">> >>
     ELSE << <<Len(listed), "content",
               IF Len(listed) = 1 THEN "anomaly" ELSE "anomalies", "detected:">> >>
            \o [i \in 1..Len(listed) |-> AnomalyName(listed[i].item)]

\* verify_contents verifies the items listed, in order, stops only at an
\* exception, and its summary lists the items of the calls satisfying P.
VerifiesAllAndSums(P(_)) ==
  vrun.all =>
    /\ Len(vrun.calls) <= Len(ItemsListed)
    /\ \A k \in 1..Len(vrun.calls) : vrun.calls[k].item = ItemsListed[k]
    /\ \A k \in 1..(Len(vrun.calls) - 1) : vrun.calls[k].value >= 0
    /\ (vrun.pc = "exited" /\ vrun.error = "none") => Len(vrun.calls) = Len(ItemsListed)
    /\ vrun.summary # <<>> <=>
         (Len(vrun.calls) = Len(ItemsListed) /\ LastCall.value >= 0)
    /\ vrun.summary # <<>> => vrun.summary = SummaryOf(P)

\* C24: verify_contents verifies trunk, then every tag listed, then every
\* branch listed whose name does not start with 'unlabeled-'; an anomaly in
\* one item does not keep the others from being verified; the summary lists
\* exactly the items in which an anomaly was reported, and says 'No content
\* anomalies detected' only if no anomaly was counted.
C24_SummaryListsAnomalies ==
  /\ VerifiesAllAndSums(LAMBDA call : call.reports > 0)
  /\ vrun.summary = << <<"No content anomalies detected">> >> => failures.count = 0

\* The same, with a summary of the items for which verify_contents_single
\* returned 0.
SummaryListsFailedCalls == VerifiesAllAndSums(LAMBDA call : call.value = 0)

\* The rules the user gave with --symbol-transform.
UserRules ==
  [i \in 1..Len(vrun.options.symbol_transform) |->
     Transform(vrun.options.symbol_transform[i][1], vrun.options.symbol_transform[i][2])]

\* C20: for a tag or a branch, the CVS side is exported at the label the
\* user's --symbol-transform rules give and the converted repository at the
\* label itself.
C20_TransformTakesEffect ==
  \A k \in 1..(Len(vrun.exports) \div 2) :
    LET cvs == vrun.exports[2 * k - 1]
        vrf == vrun.exports[2 * k]
    IN /\ cvs.side = "cvs" /\ vrf.side = vrun.options.repos_type
       /\ cvs.kind = vrf.kind
       /\ cvs.label = transform_symbol(UserRules, vrf.label)

-----------------------------------------------------------------------------
(* Properties of --help (checked under SpecHelp).                          *)

\* __init__ printed the usage message last and exited with status 0.
UsageAndExit0 ==
  /\ pc = "exited"
  /\ result.status = 0
  /\ printed # <<>> /\ printed[Len(printed)] = "usage"

=============================================================================
